---- MODULE Spec2Model ----
(***************************************************************************)
(* Model of the input normalisation engine of NetflixController            *)
(* (src/src/utils/gamepads.ts): GamepadHandler.poll, Gamepad.update, the   *)
(* button / axis / joystick comparisons, listener dispatch with consume(), *)
(* the deadzone setters and the listener registration API.                 *)
(*                                                                         *)
(* Numbers: axis values, button values and deadzones are fixed-point,      *)
(* in hundredths (100 stands for 1.0, 10 for 0.1, 5 for 0.05).  A deadzone *)
(* is a JavaScript number and may be NaN, so it is a record                *)
(* [nan, val]; NaN compares false with everything, as in the code.         *)
(***************************************************************************)
EXTENDS Integers, Sequences, FiniteSets, TLC

VARIABLES
    live,       \* the host hands out live objects (mutated in place) instead of snapshots
    gamepads,   \* GamepadHandler.gamepads : device index -> Gamepad
    events,     \* the events created by the last operation (a poll), in creation order
    prevInput,  \* history: what navigator.getGamepads() returned at the poll before the last
    lastInput,  \* history: what navigator.getGamepads() returned at the last poll
    connLog,    \* history: every connect / disconnect event since construction
    registered, \* history: per Gamepad, event type and index, the listeners in the order they were added
    lastCall,   \* the last operation called, its arguments and whether it threw
    supported,  \* GamepadHandler._supported
    paused,     \* GamepadHandler._paused
    frames,     \* the callbacks of _run given to requestAnimationFrame and not yet run
    lastLoop,   \* history: the last step of the polling loop: "start", "stop" or "frame"
    polled,     \* history: that step executed poll()
    actions,    \* ActionHandler.actions : button index -> action
    onInput,    \* ActionHandler.onInput : a callback or "null"
    onDirection, \* ActionHandler.onDirection : a callback or "null"
    hints,      \* the hints bar: the actions it shows, in order
    pressCalls, \* history: the callbacks the last onButtonPress / onButtonRelease invoked, in order
    lastAction, \* history: the last operation on the ActionHandler and its arguments
    pageClass,  \* the class of the page that is currentHandler
    heap,       \* the navigatable objects created so far: id -> fields
    navigatables, \* NavigatablePage.navigatables : ids, 0 for null
    position,   \* NavigatablePage.position
    inlineJawbone, \* currentHandler.inlineJawbone : an id, 0 for none
    loaded,     \* NavigatablePage.loaded
    unloaded,   \* NavigatablePage.unloaded
    phase,      \* where load() is: "new", "loading", "done"
    waitResolved, \* the promise of waitUntilReady is resolved
    timer,      \* a setTimeout(checkReadiness, 50) is pending
    styled,     \* the promise of loadPseudoStyler is resolved
    dom,        \* the document: is the page ready, which rows exist, which hold a companion panel
    navLog,     \* history: the enter and exit calls of the last page operation, in order
    onLoads,    \* history: how many times onLoad was invoked
    lastPage,   \* history: the last page operation, its argument, the state before it
    guarded,    \* the StaticNavigatable is the class that checks its component before styling it
    components, \* StaticNavigatable._components : the cached elements, each with its state in the document
    staticPosition, \* StaticNavigatable.position
    staticCall, \* history: the last call on the StaticNavigatable and what it did
    rowSlider,  \* a Slider and the row node it was built on
    sliderCall, \* history: the last call on the Slider and what it did
    errorBar,   \* the error bar: is a message shown and for how long, and history of the last poll
    router,     \* the content script: currentHandler, currentPath, the page instances, the calls in flight
    repeater,   \* the joystick repeater: directions, timeouts and the timers the host holds
    modal       \* the ModalDetector: isModalOpen, modalContainer, the document and url, the timers pending

gamepadVars == <<live, gamepads, events, prevInput, lastInput, connLog, registered, lastCall>>

loopVars == <<supported, paused, frames, lastLoop, polled>>

registryVars == <<actions, onInput, onDirection, hints, pressCalls, lastAction>>

(* What the operations on Gamepad objects leave alone, and what the        *)
(* polling loop and the ActionHandler leave alone beside the gamepads.     *)
pageVars == <<pageClass, heap, navigatables, position, inlineJawbone, loaded, unloaded, phase,
              waitResolved, timer, styled, dom, navLog, onLoads, lastPage>>

componentVars == <<guarded, components, staticPosition, staticCall, rowSlider, sliderCall>>

appVars == <<errorBar, router, repeater, modal>>

besideGamepads == <<loopVars, registryVars, pageVars, componentVars, appVars>>

besideLoop == <<registryVars, pageVars, componentVars, appVars>>

besideRegistry == <<gamepadVars, loopVars, pageVars, componentVars, appVars>>

besidePage == <<gamepadVars, loopVars, componentVars, appVars>>

besideComponents == <<gamepadVars, loopVars, registryVars, pageVars, appVars>>

besideApp == <<gamepadVars, loopVars, registryVars, pageVars, componentVars>>

vars == <<gamepadVars, loopVars, registryVars, pageVars, componentVars, appVars>>

----------------------------------------------------------------------------
(* Bounds of the model *)

MaxTimestamp == 3
MaxConnLog == 4
MaxListeners == 2
MaxFrames == 2
MaxActions == 2
MaxObjects == 4

----------------------------------------------------------------------------
(* Values *)

Null == [null |-> TRUE]

WildcardIndex == -1

DefaultDeadzone == 10

EventTypes == {"buttonpress", "buttonrelease", "buttonvaluechange", "axischange", "joystickmove"}

Abs(x) == IF x < 0 THEN -x ELSE x

Sign(x) == IF x > 0 THEN 1 ELSE IF x < 0 THEN -1 ELSE 0

Num(v) == [nan |-> FALSE, val |-> v]

NaN == [nan |-> TRUE, val |-> 0]

RECURSIVE Concat(_)
Concat(ss) == IF ss = <<>> THEN <<>> ELSE Head(ss) \o Concat(Tail(ss))

(* Keys of the callback Maps: a number, or an array compared by identity (ref). *)
NumKey(n) == [kind |-> "num", n |-> n, ref |-> "", items |-> <<>>]

ArrKey(ref, items) == [kind |-> "arr", n |-> 0, ref |-> ref, items |-> items]

MapHas(m, key) == \E i \in 1..Len(m) : m[i].key = key

MapGet(m, key) == m[CHOOSE i \in 1..Len(m) : m[i].key = key].listeners

MapSet(m, key, listeners) ==
    IF MapHas(m, key)
    THEN [i \in 1..Len(m) |-> IF m[i].key = key THEN [key |-> key, listeners |-> listeners] ELSE m[i]]
    ELSE Append(m, [key |-> key, listeners |-> listeners])

Put(f, k, v) == [i \in DOMAIN f \cup {k} |-> IF i = k THEN v ELSE f[i]]

Remove(f, k) == [i \in DOMAIN f \ {k} |-> f[i]]

----------------------------------------------------------------------------
(* Events and their dispatch *)

ValueEvent(pad, type, index, value) ==
    [type |-> type, pad |-> pad, index |-> index, index2 |-> WildcardIndex,
     value |-> value, value2 |-> 0, consumed |-> FALSE, calls |-> <<>>]

JoystickEvent(pad, type, hIndex, vIndex, hValue, vValue) ==
    [type |-> type, pad |-> pad, index |-> hIndex, index2 |-> vIndex,
     value |-> hValue, value2 |-> vValue, consumed |-> FALSE, calls |-> <<>>]

ConnectionEvent(pad, type) ==
    [type |-> type, pad |-> pad, index |-> WildcardIndex, index2 |-> WildcardIndex,
     value |-> 0, value2 |-> 0, consumed |-> FALSE, calls |-> <<>>]

(* The listeners of the model: listener l is a function that, when called, *)
(* calls event.consume() if l is one of ConsumingListeners.                *)
Listeners == {1, 2, 3}

ConsumingListeners == {2}

Consume(event) == [event EXCEPT !.consumed = TRUE]

CallListener(l, event) ==
    LET called == [event EXCEPT !.calls = Append(@, l)]
    IN  IF l \in ConsumingListeners THEN Consume(called) ELSE called

RECURSIVE DispatchFrom(_, _, _)
DispatchFrom(event, listeners, i) ==
    IF i <= Len(listeners) /\ ~event.consumed
    THEN DispatchFrom(CallListener(listeners[i], event), listeners, i + 1)
    ELSE event

Dispatch(event, listeners) == DispatchFrom(event, listeners, 1)

(* A dispatch whose second pass forgets that the event was consumed. *)
DispatchEventForgetful(event, callbackMap, index) ==
    LET specific == IF MapHas(callbackMap, NumKey(index))
                    THEN Dispatch(event, MapGet(callbackMap, NumKey(index)))
                    ELSE event
    IN  IF MapHas(callbackMap, NumKey(WildcardIndex))
        THEN Dispatch([specific EXCEPT !.consumed = FALSE], MapGet(callbackMap, NumKey(WildcardIndex)))
        ELSE specific

DispatchEvent(event, callbackMap, index) ==
    LET specific == IF MapHas(callbackMap, NumKey(index))
                    THEN Dispatch(event, MapGet(callbackMap, NumKey(index)))
                    ELSE event
    IN  IF MapHas(callbackMap, NumKey(WildcardIndex))
        THEN Dispatch(specific, MapGet(callbackMap, NumKey(WildcardIndex)))
        ELSE specific

----------------------------------------------------------------------------
(* Gamepad *)

SetLastValues(g) ==
    [g EXCEPT !.last = [connected |-> g.gamepad.connected,
                        axes |-> g.gamepad.axes,
                        buttons |-> [i \in DOMAIN g.gamepad.buttons |->
                                        [pressed |-> g.gamepad.buttons[i].pressed,
                                         value |-> g.gamepad.buttons[i].value]]]]

NoCallbacks == [t \in EventTypes |-> <<>>]

NewGamepad(gamepad) ==
    SetLastValues([gamepad |-> gamepad,
                   callbacks |-> NoCallbacks,
                   deadzones |-> <<>>,
                   deadzone |-> Num(DefaultDeadzone),
                   last |-> Null])

JoystickDeadzone(g) ==
    IF g.deadzone.nan \/ g.deadzone.val = 0 THEN DefaultDeadzone ELSE g.deadzone.val

CheckDeadzoneThrows(deadzone) ==
    ~deadzone.nan /\ (deadzone.val >= 100 \/ deadzone.val < 0)

(* A deadzone that cuts values off without shifting the rest towards 0. *)
ApplyDeadzoneJump(value, deadzone) ==
    IF ~deadzone.nan /\ Abs(value) > deadzone.val THEN value ELSE 0

ApplyDeadzone(value, deadzone) ==
    IF ~deadzone.nan /\ Abs(value) > deadzone.val
    THEN value - Sign(value) * deadzone.val
    ELSE 0

ApplyJoystickDeadzone(g, value) == ApplyDeadzone(value, Num(JoystickDeadzone(g)))

(* An axis without a deadzone of its own falling back on the joystick's. *)
ApplyAxisDeadzoneJoystick(g, value, index) ==
    IF index \in DOMAIN g.deadzones
    THEN ApplyDeadzone(value, g.deadzones[index])
    ELSE ApplyDeadzone(value, Num(JoystickDeadzone(g)))

ApplyAxisDeadzone(g, value, index) ==
    IF index \in DOMAIN g.deadzones
    THEN ApplyDeadzone(value, g.deadzones[index])
    ELSE value

(* newAxes[i] for an index the array may not have: undefined there, and    *)
(* Math.abs(undefined) is NaN, so the deadzone adjustment gives 0.         *)
JoystickAxis(g, axes, indices, k) ==
    IF k <= Len(indices) /\ indices[k] + 1 \in DOMAIN axes
    THEN ApplyJoystickDeadzone(g, axes[indices[k] + 1])
    ELSE 0

IndexOrUndefined(indices, k) == IF k <= Len(indices) THEN indices[k] ELSE WildcardIndex

CompareJoysticks(g, newAxes, oldAxes) ==
    LET m == g.callbacks["joystickmove"]
        One(entry) ==
            IF entry.key.kind = "arr"
            THEN LET indices == entry.key.items
                     newHorizontal == JoystickAxis(g, newAxes, indices, 1)
                     newVertical == JoystickAxis(g, newAxes, indices, 2)
                     oldHorizontal == JoystickAxis(g, oldAxes, indices, 1)
                     oldVertical == JoystickAxis(g, oldAxes, indices, 2)
                 IN  IF newHorizontal # oldHorizontal \/ newVertical # oldVertical
                     THEN <<Dispatch(JoystickEvent(g.gamepad.index, "joystickmove",
                                                   IndexOrUndefined(indices, 1),
                                                   IndexOrUndefined(indices, 2),
                                                   newHorizontal, newVertical),
                                     entry.listeners)>>
                     ELSE <<>>
            ELSE <<>>
    IN  Concat([k \in 1..Len(m) |-> One(m[k])])

CompareAxes(g, newAxes, oldAxes) ==
    LET callbackMap == g.callbacks["axischange"]
        One(i) ==
            LET newValue == ApplyAxisDeadzone(g, newAxes[i + 1], i)
                oldValue == ApplyAxisDeadzone(g, oldAxes[i + 1], i)
            IN  IF newValue # oldValue
                THEN <<DispatchEvent(ValueEvent(g.gamepad.index, "axischange", i, newAxes[i + 1]),
                                     callbackMap, i)>>
                ELSE <<>>
    IN  Concat([k \in 1..Len(newAxes) |-> One(k - 1)])

(* A level-triggered press test: fires while the button is held. *)
PressPredicateLevel(nv, ov) == nv.pressed

PressPredicate(nv, ov) == nv.pressed /\ ~ov.pressed

ReleasePredicate(nv, ov) == ~nv.pressed /\ ov.pressed

ValueChangePredicate(nv, ov) == nv.value # ov.value

(* The predicate _compareButtons passes to _checkButtons for an event type. *)
Predicate(eventType, nv, ov) ==
    CASE eventType = "buttonpress" -> PressPredicate(nv, ov)
      [] eventType = "buttonrelease" -> ReleasePredicate(nv, ov)
      [] eventType = "buttonvaluechange" -> ValueChangePredicate(nv, ov)

CheckButtons(g, eventType, newValues, oldValues) ==
    LET callbackMap == g.callbacks[eventType]
        One(i) ==
            IF Predicate(eventType, newValues[i + 1], oldValues[i + 1])
            THEN <<DispatchEvent(ValueEvent(g.gamepad.index, eventType, i, newValues[i + 1].value),
                                 callbackMap, i)>>
            ELSE <<>>
    IN  Concat([k \in 1..Len(newValues) |-> One(k - 1)])

CompareButtons(g, newValues, oldValues) ==
       CheckButtons(g, "buttonpress", newValues, oldValues)
    \o CheckButtons(g, "buttonrelease", newValues, oldValues)
    \o CheckButtons(g, "buttonvaluechange", newValues, oldValues)

(* The three comparisons in another order: axes first. *)
ComparisonsAxesFirst(g, newGamepad, oldGamepad) ==
       CompareAxes(g, newGamepad.axes, oldGamepad.axes)
    \o CompareButtons(g, newGamepad.buttons, oldGamepad.buttons)
    \o CompareJoysticks(g, newGamepad.axes, oldGamepad.axes)

Comparisons(g, newGamepad, oldGamepad) ==
       CompareButtons(g, newGamepad.buttons, oldGamepad.buttons)
    \o CompareAxes(g, newGamepad.axes, oldGamepad.axes)
    \o CompareJoysticks(g, newGamepad.axes, oldGamepad.axes)

(* A connection test that forgets the old side. *)
NewConnected(newGamepad, oldGamepad) == newGamepad.connected

BothConnected(newGamepad, oldGamepad) == newGamepad.connected /\ oldGamepad.connected

(* The result of update(gamepad) on Gamepad g: the Gamepad afterwards and  *)
(* the events created, in order.                                           *)
Update(g, gamepad) ==
    LET updatesReferences == gamepad.timestamp = g.gamepad.timestamp
        oldGamepad == IF ~updatesReferences THEN g.gamepad ELSE g.last
        this == IF ~updatesReferences THEN [g EXCEPT !.gamepad = gamepad] ELSE g
        newGamepad == this.gamepad
        created ==
            IF BothConnected(newGamepad, oldGamepad)
            THEN Comparisons(this, newGamepad, oldGamepad)
            ELSE <<>>
    IN  [gamepad |-> SetLastValues(this), events |-> created]

----------------------------------------------------------------------------
(* GamepadHandler.poll *)

(* index && ... on the key of a for-in loop: the key is a string, and    *)
(* every array key, "0" included, is truthy.                               *)
(* The same test on a numeric key: position 0 is falsy. *)
IndexTruthyNumeric(index) == index # 0

IndexTruthy(index) == TRUE

(* On a host of live objects the tracked Gamepad holds the very object the *)
(* host returns again: the host has already changed it in place.           *)
HostMutated(g, gamepad) == IF live THEN [g EXCEPT !.gamepad = gamepad] ELSE g

RECURSIVE PollPresent(_, _, _)
PollPresent(acc, arr, index) ==
    IF index \notin DOMAIN arr
    THEN acc
    ELSE LET gamepad == arr[index]
             step ==
                 IF IndexTruthy(index) /\ gamepad # Null
                 THEN IF gamepad.index \in DOMAIN acc.gamepads
                      THEN LET r == Update(HostMutated(acc.gamepads[gamepad.index], gamepad), gamepad)
                           IN  [gamepads |-> [acc.gamepads EXCEPT ![gamepad.index] = r.gamepad],
                                events |-> acc.events \o r.events,
                                connectedIndices |-> acc.connectedIndices \cup {index}]
                      ELSE [gamepads |-> Put(acc.gamepads, gamepad.index, NewGamepad(gamepad)),
                            events |-> Append(acc.events,
                                              Dispatch(ConnectionEvent(gamepad.index, "connect"), <<>>)),
                            connectedIndices |-> acc.connectedIndices \cup {index}]
                 ELSE acc
         IN  PollPresent(step, arr, index + 1)

RECURSIVE PollAbsent(_, _)
PollAbsent(acc, keys) ==
    IF keys = {}
    THEN acc
    ELSE LET index == CHOOSE k \in keys : \A j \in keys : k <= j
             step ==
                 IF index \notin acc.connectedIndices
                 THEN [acc EXCEPT !.gamepads = Remove(@, index),
                                  !.events = Append(@, Dispatch(ConnectionEvent(index, "disconnect"), <<>>))]
                 ELSE acc
         IN  PollAbsent(step, keys \ {index})

IsConnectionEvent(e) == e.type \in {"connect", "disconnect"}

NoCall == [op |-> "none", pad |-> WildcardIndex, type |-> "", listener |-> 0,
           key |-> NumKey(WildcardIndex), axis |-> WildcardIndex, deadzone |-> Num(0), threw |-> FALSE]

PollResult(arr) ==
    LET present == PollPresent([gamepads |-> gamepads, events |-> <<>>, connectedIndices |-> {}], arr, 0)
    IN  PollAbsent(present, DOMAIN present.gamepads)

PollStep(arr) ==
    \E done \in {PollResult(arr)} :
        /\ gamepads' = done.gamepads
        /\ events' = done.events
        /\ prevInput' = lastInput
        /\ lastInput' = arr
        /\ registered' = [pad \in DOMAIN done.gamepads |->
                              IF pad \in DOMAIN gamepads THEN registered[pad] ELSE NoCallbacks]
        /\ lastCall' = [NoCall EXCEPT !.op = "poll"]
        /\ UNCHANGED live

Poll(arr) == PollStep(arr) /\ UNCHANGED connLog

(* poll() with the connection events it creates appended to the history. *)
PollLogged(arr) ==
    /\ PollStep(arr)
    /\ connLog' = connLog \o SelectSeq(events', IsConnectionEvent)
    /\ Len(connLog') <= MaxConnLog

(* What the host may return from navigator.getGamepads(): at position i    *)
(* null or a device whose index is i; for a tracked device the timestamp   *)
(* never decreases and increases whenever the data changed (W3C Gamepad).  *)
Snapshot(index, row, timestamp) ==
    [index |-> index, connected |-> row.connected, timestamp |-> timestamp,
     buttons |-> row.buttons, axes |-> row.axes]

HostDevices(index, rows, idle) ==
    IF index \in DOMAIN gamepads
    THEN LET held == gamepads[index].gamepad
             same(row) == row.connected = held.connected /\ row.buttons = held.buttons
                          /\ row.axes = held.axes
         IN  {held} \cup {Snapshot(index, row, held.timestamp + 1) :
                             row \in {r \in rows : held.timestamp < MaxTimestamp /\ (same(r) => idle)}}
    ELSE {Snapshot(index, row, 0) : row \in rows}

(* idle: whether the host also renews the timestamp of unchanged data. *)
HostArrays(slots, rows, idle) ==
    {arr \in [slots -> {Null} \cup UNION {HostDevices(i, rows, idle) : i \in slots}] :
        \A i \in slots : arr[i] # Null => arr[i] \in HostDevices(i, rows, idle)}

----------------------------------------------------------------------------
(* Gamepad: deadzone setters and listener registration *)

SetJoystickDeadzone(pad, deadzone) ==
    /\ pad \in DOMAIN gamepads
    /\ IF CheckDeadzoneThrows(deadzone)
       THEN UNCHANGED gamepads
       ELSE gamepads' = [gamepads EXCEPT ![pad].deadzone = deadzone]
    /\ lastCall' = [NoCall EXCEPT !.op = "setJoystickDeadzone", !.pad = pad, !.deadzone = deadzone,
                                  !.threw = CheckDeadzoneThrows(deadzone)]
    /\ events' = <<>>
    /\ UNCHANGED <<live, prevInput, lastInput, connLog, registered>>

SetAxisDeadzone(pad, index, deadzone) ==
    /\ pad \in DOMAIN gamepads
    /\ IF CheckDeadzoneThrows(deadzone)
       THEN UNCHANGED gamepads
       ELSE gamepads' = [gamepads EXCEPT ![pad].deadzones = Put(@, index, deadzone)]
    /\ lastCall' = [NoCall EXCEPT !.op = "setAxisDeadzone", !.pad = pad, !.axis = index,
                                  !.deadzone = deadzone, !.threw = CheckDeadzoneThrows(deadzone)]
    /\ events' = <<>>
    /\ UNCHANGED <<live, prevInput, lastInput, connLog, registered>>

(* Array.push, and the listeners added so far in the order of the calls. *)
Unshift(listeners, listener) == <<listener>> \o listeners

Push(listeners, listener) == Append(listeners, listener)

Registered(pad, type, index) ==
    IF MapHas(registered[pad][type], index) THEN MapGet(registered[pad][type], index) ELSE <<>>

CheckJoystickEventThrows(type, index) == type = "joystickmove" /\ index.kind # "arr"

AddEventListener(pad, type, listener, index) ==
    /\ pad \in DOMAIN gamepads
    /\ LET m == gamepads[pad].callbacks[type]
           withKey == IF ~MapHas(m, index) THEN MapSet(m, index, <<>>) ELSE m
           listeners == MapGet(withKey, index)
       IN  IF CheckJoystickEventThrows(type, index)
           THEN UNCHANGED <<gamepads, registered>>
           ELSE /\ Len(listeners) < MaxListeners
                /\ gamepads' = [gamepads EXCEPT ![pad].callbacks[type] =
                                    MapSet(withKey, index, Push(listeners, listener))]
                /\ registered' = [registered EXCEPT ![pad][type] =
                                      MapSet(@, index, Append(Registered(pad, type, index), listener))]
    /\ lastCall' = [NoCall EXCEPT !.op = "addEventListener", !.pad = pad, !.type = type,
                                  !.listener = listener, !.key = index,
                                  !.threw = CheckJoystickEventThrows(type, index)]
    /\ events' = <<>>
    /\ UNCHANGED <<live, prevInput, lastInput, connLog>>

RemoveEventListener(pad, type, listener, index) ==
    /\ pad \in DOMAIN gamepads
    /\ LET m == gamepads[pad].callbacks[type]
       IN  IF CheckJoystickEventThrows(type, index) \/ ~MapHas(m, index)
           THEN UNCHANGED gamepads
           ELSE gamepads' = [gamepads EXCEPT ![pad].callbacks[type] =
                                MapSet(m, index, SelectSeq(MapGet(m, index), LAMBDA callback : callback # listener))]
    /\ registered' = IF CheckJoystickEventThrows(type, index) \/ Registered(pad, type, index) = <<>>
                     THEN registered
                     ELSE [registered EXCEPT ![pad][type] =
                              MapSet(@, index, SelectSeq(Registered(pad, type, index),
                                                         LAMBDA callback : callback # listener))]
    /\ lastCall' = [NoCall EXCEPT !.op = "removeEventListener", !.pad = pad, !.type = type,
                                  !.listener = listener, !.key = index,
                                  !.threw = CheckJoystickEventThrows(type, index)]
    /\ events' = <<>>
    /\ UNCHANGED <<live, prevInput, lastInput, connLog>>

(* addJoystickEventListener and removeJoystickEventListener build the      *)
(* index of each call anew: [horizontalIndex, verticalIndex] is an array    *)
(* that no earlier call has seen, and the callback Maps compare arrays by   *)
(* identity.  ArrayRefs are the identities the calls of add take in turn;  *)
(* the array of a call of remove is never a key of any Map.  The history   *)
(* variable registered keeps the listeners under the pair of axes (ByAxes) *)
(* that the caller named.                                                  *)
MaxArrays == 2

ArrayRefs == <<"array1", "array2", "array3", "array4">>

ByAxes(horizontalIndex, verticalIndex) == ArrKey("", <<horizontalIndex, verticalIndex>>)

NewArray(m, horizontalIndex, verticalIndex) ==
    ArrKey(ArrayRefs[CHOOSE k \in 1..MaxArrays :
                         /\ \A i \in 1..Len(m) : m[i].key.ref # ArrayRefs[k]
                         /\ \A j \in 1..(k - 1) : \E i \in 1..Len(m) : m[i].key.ref = ArrayRefs[j]],
           <<horizontalIndex, verticalIndex>>)

AddJoystickEventListener(pad, type, listener, horizontalIndex, verticalIndex) ==
    /\ pad \in DOMAIN gamepads
    /\ \E k \in 1..MaxArrays :
           \A i \in 1..Len(gamepads[pad].callbacks[type]) :
               gamepads[pad].callbacks[type][i].key.ref # ArrayRefs[k]
    /\ \E index \in {NewArray(gamepads[pad].callbacks[type], horizontalIndex, verticalIndex)} :
           /\ gamepads' = [gamepads EXCEPT ![pad].callbacks[type] = MapSet(@, index, Push(<<>>, listener))]
           /\ lastCall' = [NoCall EXCEPT !.op = "addJoystickEventListener", !.pad = pad, !.type = type,
                                         !.listener = listener, !.key = index]
    /\ registered' = [registered EXCEPT ![pad][type] =
                          MapSet(@, ByAxes(horizontalIndex, verticalIndex),
                                 Append(Registered(pad, type, ByAxes(horizontalIndex, verticalIndex)),
                                        listener))]
    /\ events' = <<>>
    /\ UNCHANGED <<live, prevInput, lastInput, connLog>>

(* this._callbacks[type].get(index) is undefined for the new array: no      *)
(* list is filtered.                                                       *)
RemoveJoystickEventListener(pad, type, listener, horizontalIndex, verticalIndex) ==
    /\ pad \in DOMAIN gamepads
    /\ UNCHANGED gamepads
    /\ registered' = IF Registered(pad, type, ByAxes(horizontalIndex, verticalIndex)) = <<>>
                     THEN registered
                     ELSE [registered EXCEPT ![pad][type] =
                              MapSet(@, ByAxes(horizontalIndex, verticalIndex),
                                     SelectSeq(Registered(pad, type, ByAxes(horizontalIndex, verticalIndex)),
                                               LAMBDA callback : callback # listener))]
    /\ lastCall' = [NoCall EXCEPT !.op = "removeJoystickEventListener", !.pad = pad, !.type = type,
                                  !.listener = listener,
                                  !.key = ByAxes(horizontalIndex, verticalIndex)]
    /\ events' = <<>>
    /\ UNCHANGED <<live, prevInput, lastInput, connLog>>

----------------------------------------------------------------------------
(* The polling loop: start, stop, _run and the frame callbacks. *)

(* The loop not started: no frame callback is pending. *)
LoopIdle ==
    /\ supported = TRUE
    /\ paused = FALSE
    /\ frames = 0
    /\ lastLoop = "none"
    /\ polled = FALSE

(* What the host reports while the loop runs: a device without buttons,    *)
(* connected or not.                                                       *)
LoopRows == [connected : BOOLEAN, buttons : {<<>>}, axes : {<<>>}]

(* A _run that would go on whether the handler is paused or not. *)
RunContinuesAlways(isPaused) == supported

RunContinues(isPaused) == supported /\ ~isPaused

(* _run() with `pending` callbacks waiting and _paused as given: poll and  *)
(* ask for the next frame, or do nothing.                                  *)
Run(isPaused, pending) ==
    IF RunContinues(isPaused)
    THEN /\ \E arr \in HostArrays(DOMAIN lastInput, LoopRows, TRUE) : Poll(arr)
         /\ frames' = pending + 1
         /\ polled' = TRUE
    ELSE /\ frames' = pending
         /\ polled' = FALSE
         /\ UNCHANGED gamepadVars

Start ==
    /\ frames < MaxFrames
    /\ paused' = FALSE
    /\ Run(FALSE, frames)
    /\ lastLoop' = "start"
    /\ UNCHANGED supported

Stop ==
    /\ paused' = TRUE
    /\ lastLoop' = "stop"
    /\ polled' = FALSE
    /\ UNCHANGED <<supported, frames, gamepadVars>>

(* The host runs one of the pending frame callbacks: () => this._run(). *)
FrameCallback ==
    /\ frames > 0
    /\ Run(paused, frames - 1)
    /\ lastLoop' = "frame"
    /\ UNCHANGED <<supported, paused>>

----------------------------------------------------------------------------
(* The action registry (ActionHandler): the actions bound to button        *)
(* indices, the two page callbacks and the dispatch of a button press.     *)

D_PAD_UP == 12
D_PAD_BOTTOM == 13
D_PAD_LEFT == 14
D_PAD_RIGHT == 15

UP == 0
RIGHT == 1
DOWN == 2
LEFT == 3

DIRECTION_MAP ==
    (D_PAD_UP :> UP) @@ (D_PAD_BOTTOM :> DOWN) @@ (D_PAD_LEFT :> LEFT) @@ (D_PAD_RIGHT :> RIGHT)

NoOp == [op |-> "none", list |-> <<>>, index |-> WildcardIndex]

(* A new ActionHandler. *)
RegistryIdle ==
    /\ actions = <<>>
    /\ onInput = "null"
    /\ onDirection = "null"
    /\ hints = <<>>
    /\ pressCalls = <<>>
    /\ lastAction = NoOp

(* Object.values of a record with integer keys: in ascending key order. *)
RECURSIVE Values(_)
Values(record) ==
    IF DOMAIN record = {}
    THEN <<>>
    ELSE LET least == CHOOSE i \in DOMAIN record : \A j \in DOMAIN record : i <= j
         IN  <<record[least]>> \o Values(Remove(record, least))

(* ActionHintsBar.update: one hint per action. *)
UpdateHints(newActions) == hints' = Values(newActions)

(* A binding that keeps the action an index already has. *)
BindKeepingFirst(bound, action) ==
    IF action.index \in DOMAIN bound THEN bound ELSE Put(bound, action.index, action)

(* this.actions[action.index] = action *)
Bind(bound, action) == Put(bound, action.index, action)

(* delete this.actions[action.index] *)
Unbind(bound, action) == Remove(bound, action.index)

RECURSIVE BindAll(_, _)
BindAll(bound, list) ==
    IF list = <<>> THEN bound ELSE BindAll(Bind(bound, Head(list)), Tail(list))

RECURSIVE UnbindAll(_, _)
UnbindAll(bound, list) ==
    IF list = <<>> THEN bound ELSE UnbindAll(Unbind(bound, Head(list)), Tail(list))

(* A registry operation: the new bindings, the hints refreshed. *)
Rebind(op, list, newActions) ==
    /\ actions' = newActions
    /\ UpdateHints(newActions)
    /\ lastAction' = [NoOp EXCEPT !.op = op, !.list = list]
    /\ pressCalls' = <<>>
    /\ UNCHANGED <<onInput, onDirection>>

AddAction(action) == Rebind("addAction", <<action>>, Bind(actions, action))

RemoveAction(action) == Rebind("removeAction", <<action>>, Unbind(actions, action))

AddAll(list) == Rebind("addAll", list, BindAll(actions, list))

RemoveAll(list) == Rebind("removeAll", list, UnbindAll(actions, list))

(* The page sets or clears its callbacks. *)
SetCallbacks(input, direction) ==
    /\ onInput' = input
    /\ onDirection' = direction
    /\ lastAction' = [NoOp EXCEPT !.op = "setCallbacks"]
    /\ pressCalls' = <<>>
    /\ UNCHANGED <<actions, hints>>

(* What a callback that is called leaves in the history. *)
Called(name, arg) == <<[callback |-> name, arg |-> arg]>>

(* A dispatch in which a D-pad press never reaches an action. *)
PressOfActionExclusive(index, bound) ==
    IF index \notin DOMAIN DIRECTION_MAP /\ index \in DOMAIN bound /\ bound[index].onPress
    THEN Called("onPress", bound[index].id)
    ELSE <<>>

(* if (index in this.actions) this.actions[index].onPress?.() *)
PressOfAction(index, bound) ==
    IF index \in DOMAIN bound /\ bound[index].onPress
    THEN Called("onPress", bound[index].id)
    ELSE <<>>

OnButtonPress(index) ==
    LET input == IF onInput # "null" THEN Called(onInput, WildcardIndex) ELSE <<>>
        directed == index \in DOMAIN DIRECTION_MAP /\ onDirection # "null"
        direction == IF directed THEN Called(onDirection, DIRECTION_MAP[index]) ELSE <<>>
    IN  /\ pressCalls' = input \o direction \o PressOfAction(index, actions)
        /\ lastAction' = [NoOp EXCEPT !.op = "onButtonPress", !.index = index]
        /\ UNCHANGED <<actions, onInput, onDirection, hints>>

OnButtonRelease(index) ==
    /\ pressCalls' = IF index \in DOMAIN actions /\ actions[index].onRelease
                     THEN Called("onRelease", actions[index].id)
                     ELSE <<>>
    /\ lastAction' = [NoOp EXCEPT !.op = "onButtonRelease", !.index = index]
    /\ UNCHANGED <<actions, onInput, onDirection, hints>>

----------------------------------------------------------------------------
(* Pages (NavigatablePage, SliderBrowse and its subclasses) and the        *)
(* navigatables they hold.  The operations of a page are functions of a    *)
(* record w of what they read and write: the objects (heap), the page's    *)
(* navigatables and position, currentHandler.inlineJawbone, the registry's *)
(* actions, the enter / exit calls made (log) and whether an error was     *)
(* thrown (threw).  An id of 0 stands for null or undefined.               *)

BUTTON_BOTTOM == 0
BUTTON_LEFT == 2

(* row: undefined *)
NoRow == -1

(* The transfer object {}: no position, no jawboneRow, no jawboneClosed. *)
NoParams == [position |-> -1, jawboneRow |-> -1, jawboneClosed |-> FALSE]

Min(a, b) == IF a <= b THEN a ELSE b

Max(a, b) == IF a >= b THEN a ELSE b

(* A navigatable as its constructor leaves it.  hollow: the document holds *)
(* none of the elements getComponents() of a StaticNavigatable looks for.  *)
NewNavigatable(kind, row) ==
    [kind |-> kind, row |-> row, position |-> IF kind = "Slider" THEN 0 ELSE -1,
     jawboneOpen |-> FALSE, inline |-> FALSE, closed |-> FALSE, slider |-> 0,
     replacedEarlierJawbone |-> FALSE, sliderPosition |-> -1, entered |-> FALSE,
     locked |-> FALSE, opening |-> FALSE, hollow |-> FALSE]

(* unselect() of a StaticNavigatable throws: position >= 0 and the         *)
(* component at it is undefined.                                           *)
UnselectThrows(o) == o.kind = "Menu" /\ o.hollow /\ o.position >= 0

NavigationAction(index, label, owner) ==
    [index |-> index, id |-> <<label, owner>>, onPress |-> TRUE, onRelease |-> FALSE]

GetActions(w, id) ==
    LET o == w.heap[id]
    IN  CASE o.kind = "Slider" ->
                 <<NavigationAction(BUTTON_BOTTOM, "Play", id)>>
                     \o (IF ~o.jawboneOpen THEN <<NavigationAction(BUTTON_LEFT, "Expand", id)>> ELSE <<>>)
          [] o.kind = "Jawbone" ->
                 <<NavigationAction(BUTTON_BOTTOM, "Select", id)>>
                     \o (IF o.inline THEN <<NavigationAction(BUTTON_LEFT, "Close", id)>> ELSE <<>>)
          [] OTHER -> <<NavigationAction(BUTTON_BOTTOM, "Select", id)>>

Logged(w, call, id, params) ==
    [w EXCEPT !.log = Append(@, [call |-> call, id |-> id, params |-> params])]

(* exit() of a navigatable: the world after it and the transfer object.    *)
(* The exit() of a StaticNavigatable throws in unselect() when it has no   *)
(* component at its position.                                              *)
NavigatableExit(w, id) ==
    LET o == w.heap[id]
        params ==
            CASE o.kind = "Slider" -> [NoParams EXCEPT !.position = o.position]
              [] o.kind = "Jawbone" ->
                     [position |-> o.sliderPosition, jawboneRow |-> o.row, jawboneClosed |-> o.closed]
              [] OTHER -> NoParams
        left == IF o.kind = "Slider"
                THEN [o EXCEPT !.entered = FALSE]
                ELSE [o EXCEPT !.entered = FALSE, !.position = -1]
    IN  IF UnselectThrows(o)
        THEN [w |-> [Logged(w, "exit", id, params) EXCEPT !.threw = TRUE], params |-> params]
        ELSE [w |-> Logged([w EXCEPT !.heap[id] = left], "exit", id, params), params |-> params]

(* The last item of a slider row: items 0..LastItem are in the document. *)
LastItem == 1

(* enter(params) of a navigatable.  The items of a slider row are on the   *)
(* page, and the timer of selectPosition that ends its lock has run by the *)
(* time the next input arrives.                                            *)
NavigatableEnter(w, id, params) ==
    LET o == w.heap[id]
        entered ==
            CASE o.kind = "Slider" ->
                     [o EXCEPT !.entered = TRUE,
                               !.locked = FALSE,
                               !.jawboneOpen = IF params.jawboneClosed THEN FALSE ELSE @,
                               !.position = IF params.position # -1
                                               /\ (params.jawboneRow = -1 \/ params.jawboneRow = o.row)
                                            THEN Min(params.position, LastItem)
                                            ELSE 0]
              [] o.kind = "Jawbone" ->
                     [o EXCEPT !.entered = TRUE,
                               !.sliderPosition = IF params.position # -1 /\ @ = -1
                                                  THEN params.position ELSE @,
                               !.position = 0]
              [] OTHER -> [o EXCEPT !.entered = TRUE, !.position = 0]
    IN  IF UnselectThrows(o)
        THEN [Logged(w, "enter", id, params) EXCEPT !.threw = TRUE]
        ELSE IF o.kind = "Menu" /\ o.hollow
        THEN [Logged([w EXCEPT !.heap[id].position = 0], "enter", id, params) EXCEPT !.threw = TRUE]
        ELSE Logged([w EXCEPT !.heap[id] = entered], "enter", id, params)

(* The value of an expression, taken once: Only({F(x) : x \in {e}}) is     *)
(* F(e) with e evaluated a single time, as a const declaration does.       *)
Only(S) == CHOOSE x \in S : TRUE

(* this.navigatables[this.position], 0 when there is none. *)
Current(w) ==
    IF w.position + 1 \in DOMAIN w.navigatables THEN w.navigatables[w.position + 1] ELSE 0

(* NavigatablePage.exit *)
PageExit(w) ==
    IF Current(w) # 0
    THEN Only({IF left.w.threw
               THEN left
               ELSE [w |-> [left.w EXCEPT !.actions = UnbindAll(@, GetActions(left.w, Current(w)))],
                     params |-> left.params] : left \in {NavigatableExit(w, Current(w))}})
    ELSE [w |-> w, params |-> NoParams]

(* NavigatablePage.enter *)
PageEnter(w, params) ==
    IF Current(w) # 0
    THEN Only({IF entered.threw
               THEN entered
               ELSE [entered EXCEPT !.actions = BindAll(@, GetActions(entered, Current(w)))] :
                   entered \in {NavigatableEnter(w, Current(w), params)}})
    ELSE w

(* An isNavigatable that takes the index just past the end as well. *)
IsNavigatableInclusive(w, pos) == pos <= Len(w.navigatables)

(* NavigatablePage.isNavigatable *)
IsNavigatable(w, pos) == pos < Len(w.navigatables)

(* NavigatablePage.setNavigatable *)
PageSetNavigatable(w, pos) ==
    IF ~IsNavigatable(w, pos)
    THEN [w EXCEPT !.threw = TRUE]
    ELSE Only({IF left.w.threw
               THEN left.w
               ELSE PageEnter([left.w EXCEPT !.position = pos], left.params) :
                   left \in {PageExit(w)}})

(* Array.splice(start, 0, item) and Array.splice(start, 1) *)
SpliceStart(list, start) ==
    IF start < 0 THEN Max(Len(list) + start, 0) ELSE Min(start, Len(list))

SpliceIn(list, start, item) ==
    LET at == SpliceStart(list, start)
    IN  SubSeq(list, 1, at) \o <<item>> \o SubSeq(list, at + 1, Len(list))

SpliceOut(list, start) ==
    LET at == SpliceStart(list, start)
    IN  SubSeq(list, 1, at) \o SubSeq(list, at + 2, Len(list))

(* NavigatablePage.addNavigatable *)
AddNavigatable(w, pos, id) == [w EXCEPT !.navigatables = SpliceIn(@, pos, id)]

(* Array.indexOf *)
IndexOf(list, id) ==
    IF \E k \in 1..Len(list) : list[k] = id
    THEN (CHOOSE k \in 1..Len(list) : list[k] = id /\ \A j \in 1..(k - 1) : list[j] # id) - 1
    ELSE -1

(* NavigatablePage.removeNavigatable with a number *)
RemoveNavigatableAt(w, pos) ==
    IF pos >= 0 THEN [w EXCEPT !.navigatables = SpliceOut(@, pos)] ELSE w

(* NavigatablePage.removeNavigatable with an object *)
RemoveNavigatableObject(w, id) == RemoveNavigatableAt(w, IndexOf(w.navigatables, id))

(* A removeCurrentNavigatable that enters without the transfer object. *)
RemoveCurrentNavigatableFresh(w) ==
    Only({PageEnter(removed.w, NoParams) :
              removed \in {[w |-> [RemoveNavigatableAt(left.w, left.w.position) EXCEPT !.position = @ - 1],
                            params |-> left.params] : left \in {PageExit(w)}}})

(* NavigatablePage.removeCurrentNavigatable *)
RemoveCurrentNavigatable(w) ==
    Only({PageEnter(removed.w, removed.params) :
              removed \in {[w |-> [RemoveNavigatableAt(left.w, left.w.position) EXCEPT !.position = @ - 1],
                            params |-> left.params] : left \in {PageExit(w)}}})

(* The id of the next object created: the first free place of the heap. *)
FreshId(objects) ==
    LET free == {i \in DOMAIN objects : objects[i].kind = "Dead"}
    IN  IF free = {} THEN Len(objects) + 1 ELSE CHOOSE i \in free : \A j \in free : i <= j

(* new X(...): the object gets the next id. *)
Create(w, object) ==
    LET id == FreshId(w.heap)
    IN  [w |-> [w EXCEPT !.heap = IF id > Len(@) THEN Append(@, object) ELSE [@ EXCEPT ![id] = object]],
         id |-> id]

(* this.row || 0 *)
RowOrZero(row) == IF row = NoRow THEN 0 ELSE row

(* Jawbone.replaceInlineJawbone, for the jawbone with the given id *)
ReplaceInlineJawbone(w, id) ==
    LET existing == w.inlineJawbone
        Closed(removed) ==
            IF removed.heap[existing].slider # 0
            THEN [removed EXCEPT !.heap[removed.heap[existing].slider].jawboneOpen = FALSE]
            ELSE removed
        Replaced(removed) ==
            IF w.heap[id].row # w.heap[existing].row
            THEN [Closed(removed) EXCEPT !.heap[id].replacedEarlierJawbone =
                                             RowOrZero(w.heap[id].row) > RowOrZero(w.heap[existing].row)]
            ELSE removed
    IN  IF existing # 0
        THEN Only({[Replaced(removed) EXCEPT !.inlineJawbone = id] :
                       removed \in {RemoveNavigatableObject(w, existing)}})
        ELSE [w EXCEPT !.inlineJawbone = id]

(* new Jawbone(row, jawbone, slider); inline when the element is given *)
NewJawbone(w, row, inline, slider) ==
    Only({[w |-> IF inline THEN ReplaceInlineJawbone(opened.w, opened.id) ELSE opened.w, id |-> opened.id] :
              opened \in {[w |-> IF slider # 0 THEN [made.w EXCEPT !.heap[slider].jawboneOpen = TRUE]
                                               ELSE made.w,
                            id |-> made.id] :
                              made \in {Create(w, [NewNavigatable("Jawbone", row)
                                                       EXCEPT !.inline = inline, !.slider = slider])}}})

(* Jawbone.getJawbone *)
GetJawbone(w, d, row, slider) ==
    IF row \in DOMAIN d.rows /\ row \in d.jaws
    THEN NewJawbone(w, row, TRUE, slider)
    ELSE [w |-> w, id |-> 0]

(* Slider.getSlider *)
GetSlider(w, d, row) ==
    IF row \in DOMAIN d.rows THEN Create(w, NewNavigatable("Slider", row)) ELSE [w |-> w, id |-> 0]

(* SliderBrowse.getNextNavigatable *)
GetNextNavigatable(w, d) ==
    LET currentNav == Current(w)
        nextRow == w.heap[currentNav].row + 1
    IN  IF currentNav # 0 /\ w.heap[currentNav].row # NoRow /\ nextRow \in DOMAIN d.rows
        THEN CASE d.rows[nextRow] = "slider" -> Create(w, NewNavigatable("Slider", nextRow))
               [] d.rows[nextRow] = "billboard" -> Create(w, NewNavigatable("Billboard", nextRow))
               [] OTHER -> [w |-> w, id |-> 0]
        ELSE [w |-> w, id |-> 0]

(* SliderBrowse.setNavigatable: the companion panel of the current row. *)
WithJawbone(w, d, pos) ==
    LET currentNav == Current(w)
        At(jawbone) == IF jawbone.w.heap[jawbone.id].replacedEarlierJawbone THEN pos - 1 ELSE pos
    IN  IF pos = w.position + 1 /\ currentNav # 0 /\ w.heap[currentNav].row # NoRow
           /\ ~w.heap[currentNav].jawboneOpen
        THEN Only({IF jawbone.id # 0
                   THEN [w |-> AddNavigatable(jawbone.w, At(jawbone), jawbone.id), pos |-> At(jawbone)]
                   ELSE [w |-> w, pos |-> pos] :
                       jawbone \in {GetJawbone(w, d, w.heap[currentNav].row, currentNav)}})
        ELSE [w |-> w, pos |-> pos]

(* SliderBrowse.setNavigatable: the next row, when the position is past the end. *)
WithNextNavigatable(w, d, pos) ==
    IF ~IsNavigatable(w, pos)
    THEN Only({IF nextNav.id # 0 THEN AddNavigatable(nextNav.w, pos, nextNav.id) ELSE w :
                   nextNav \in {GetNextNavigatable(w, d)}})
    ELSE w

(* SliderBrowse.setNavigatable *)
SliderBrowseSetNavigatable(w, d, pos) ==
    Only({IF IsNavigatable(second.w, second.pos) THEN PageSetNavigatable(second.w, second.pos) ELSE second.w :
              second \in {[w |-> WithNextNavigatable(first.w, d, first.pos), pos |-> first.pos] :
                              first \in {WithJawbone(w, d, pos)}}})

PageClasses ==
    {"PureSliderBrowse", "TitleBrowse", "FeaturedBrowse", "ChooseProfile", "WatchVideo", "SearchBrowse"}

SliderBrowseClasses == {"PureSliderBrowse", "TitleBrowse", "FeaturedBrowse"}

(* setNavigatable of a page class; ChooseProfile, WatchVideo and           *)
(* SearchBrowse accept position 0 only.                                    *)
SetNavigatable(class, w, d, pos) ==
    CASE class \in SliderBrowseClasses -> SliderBrowseSetNavigatable(w, d, pos)
      [] OTHER -> IF pos = 0 THEN PageSetNavigatable(w, pos) ELSE w

(* The loadingRow a page class gives to the SliderBrowse constructor. *)
LoadingRow(class) == IF class = "FeaturedBrowse" THEN 1 ELSE 0

(* SliderBrowse.onLoad *)
SliderBrowseOnLoad(w) ==
    Only({AddNavigatable(menu.w, 0, menu.id) : menu \in {Create(w, NewNavigatable("Menu", NoRow))}})

(* onLoad of a page class *)
OnLoad(class, w, d) ==
    CASE class = "PureSliderBrowse" ->
             Only({SetNavigatable(class, listed, d, 1) :
                       listed \in {AddNavigatable(slider.w, 1, slider.id) :
                                       slider \in {GetSlider(menu, d, LoadingRow(class)) :
                                                       menu \in {SliderBrowseOnLoad(w)}}}})
      [] class = "TitleBrowse" ->
             Only({SetNavigatable(class, listed, d, 1) :
                       listed \in {AddNavigatable(slider.w, 2, slider.id) :
                                       slider \in {GetSlider(panel, d, 0) :
                                                       panel \in {AddNavigatable(jawbone.w, 1, jawbone.id) :
                                                                      jawbone \in {NewJawbone(menu, 0, FALSE, 0) :
                                                                                       menu \in {SliderBrowseOnLoad(w)}}}}}})
      [] class = "FeaturedBrowse" ->
             Only({SetNavigatable(class, listed, d, 1) :
                       listed \in {AddNavigatable(slider.w, 2, slider.id) :
                                       slider \in {GetSlider(panel, d, 1) :
                                                       panel \in {AddNavigatable(billboard.w, 1, billboard.id) :
                                                                      billboard \in {Create(menu, NewNavigatable("Billboard", NoRow)) :
                                                                                         menu \in {SliderBrowseOnLoad(w)}}}}}})
      [] class = "ChooseProfile" ->
             Only({SetNavigatable(class, listed, d, 0) :
                       listed \in {AddNavigatable(profiles.w, 0, profiles.id) :
                                       profiles \in {Create(w, NewNavigatable("Profiles", NoRow))}}})
      [] class = "SearchBrowse" ->
             Only({SetNavigatable(class, listed, d, 0) :
                       listed \in {AddNavigatable(gallery.w, 0, gallery.id) :
                                       gallery \in {Create(w, NewNavigatable("SearchGallery", NoRow))}}})
      [] OTHER -> w

(* getActions of a page class *)
PageActions(class) ==
    IF class = "WatchVideo"
    THEN <<NavigationAction(BUTTON_BOTTOM, "Play/Pause", 0), NavigationAction(BUTTON_LEFT, "Mute", 0)>>
    ELSE <<>>

(* The last component of a static navigatable: components 0..LastComponent. *)
LastComponent == 1

(* The last card of the search gallery, cards 0..LastGalleryItem, and the  *)
(* number of columns of its grid in a narrow window.                       *)
LastGalleryItem == 3

GalleryColumns == 2

(* The last sub-position of a navigatable. *)
LastOf(kind) ==
    CASE kind = "Slider" -> LastItem
      [] kind = "SearchGallery" -> LastGalleryItem
      [] OTHER -> LastComponent

(* left() and right() of a navigatable; a slider that moves its selection  *)
(* while its companion panel is open drops the panel from the page.        *)
MoveSelection(w, id, next) ==
    LET o == w.heap[id]
        target == o.position + (IF next THEN 1 ELSE -1)
        called == Logged(w, IF next THEN "right" ELSE "left", id, NoParams)
        moved == [called EXCEPT !.heap[id].position = target]
    IN  IF target < 0 \/ target > LastOf(o.kind) \/ o.locked \/ (o.kind = "Menu" /\ o.hollow)
        THEN called
        ELSE IF o.kind = "Slider" /\ o.jawboneOpen
             THEN RemoveNavigatableAt([moved EXCEPT !.heap[id].jawboneOpen = FALSE,
                                                    !.inlineJawbone = 0],
                                      w.position + 1)
             ELSE moved

(* up() and down() of the SearchGallery: the card in the same column of    *)
(* the row above or below, if there is one.                                *)
MoveVertical(w, id, down) ==
    LET o == w.heap[id]
        row == o.position \div GalleryColumns
        column == o.position % GalleryColumns
        target == (IF down THEN row + 1 ELSE row - 1) * GalleryColumns + column
        called == Logged(w, IF down THEN "down" ELSE "up", id, NoParams)
    IN  IF (down /\ target <= LastOf(o.kind)) \/ (~down /\ row > 0)
        THEN [called EXCEPT !.heap[id].position = target]
        ELSE called

(* Slider.openJawbone, called by the Expand action of the slider with the  *)
(* given id, in the document as the click on the hitzone left it: the lock *)
(* is taken, the action unbound, and the timer set (opening) when the row  *)
(* holds a companion panel.  At most one such timer is pending per slider. *)
OpenJawbone(w, d, id) ==
    IF w.heap[id].locked \/ w.heap[id].opening
    THEN w
    ELSE [w EXCEPT !.heap[id].locked = TRUE,
                   !.heap[id].opening = w.heap[id].row \in d.jaws,
                   !.actions = Unbind(@, NavigationAction(BUTTON_LEFT, "Expand", id))]

(* The callback of the timer of openJawbone, for the slider with the given *)
(* id: currentHandler.setNavigatable(currentHandler.position + 1), then    *)
(* jawboneOpen = true and locked = false on the slider.                    *)
JawboneTimer(w, d, id) ==
    Only({[moved EXCEPT !.heap[id].jawboneOpen = TRUE,
                        !.heap[id].locked = FALSE,
                        !.heap[id].opening = FALSE] :
              moved \in {SliderBrowseSetNavigatable(w, d, w.position + 1)}})

(* A page on which no navigatable moves up and down in itself. *)
NavigatableHandlesNothing(kind) == FALSE

(* NavigatablePage.navigatableHandlesDirection *)
NavigatableHandlesDirection(kind) ==
    kind \in {"SearchGallery", "ModalContainer", "ModalEpisodeList", "ModalSimilarTitles",
              "InteractiveChoices"}

(* this.navigatables[this.position] handles up and down itself. *)
HandlesVertical(w) == Current(w) # 0 /\ NavigatableHandlesDirection(w.heap[Current(w)].kind)

(* NavigatablePage.onDirectionAction *)
OnDirectionAction(class, w, d, direction) ==
    CASE direction = UP ->
             IF HandlesVertical(w) THEN MoveVertical(w, Current(w), FALSE)
             ELSE IF w.position - 1 >= 0 THEN SetNavigatable(class, w, d, w.position - 1) ELSE w
      [] direction = DOWN ->
             IF HandlesVertical(w) THEN MoveVertical(w, Current(w), TRUE)
             ELSE SetNavigatable(class, w, d, w.position + 1)
      [] direction = LEFT -> IF Current(w) # 0 THEN MoveSelection(w, Current(w), FALSE) ELSE w
      [] direction = RIGHT -> IF Current(w) # 0 THEN MoveSelection(w, Current(w), TRUE) ELSE w

(* Jawbone.close, for the jawbone with the given id and a close button in  *)
(* the document.                                                           *)
JawboneClose(w, id) ==
    LET slider == w.heap[id].slider
    IN  Only({RemoveCurrentNavigatable(closed) :
                  closed \in {IF slider # 0
                              THEN [w EXCEPT !.heap[id].closed = TRUE, !.heap[slider].jawboneOpen = FALSE]
                              ELSE [w EXCEPT !.heap[id].closed = TRUE]}})

(* The document: whether what the page waits for is there, the rows       *)
(* row-N with what they hold, and the rows with a .jawBoneContainer.       *)
NoRows == [r \in {} |-> ""]

EmptyDocument == [ready |-> FALSE, rows |-> NoRows, jaws |-> {}]

(* The page as the operations above see it, and their result stored. *)
World ==
    [heap |-> heap, navigatables |-> navigatables, position |-> position,
     inlineJawbone |-> inlineJawbone, actions |-> actions, log |-> <<>>, threw |-> FALSE]

NoPageCall == [op |-> "none", arg |-> -1, threw |-> FALSE]

PageCall(op, arg, w) == [op |-> op, arg |-> arg, threw |-> w.threw]

(* The objects that something still refers to: the entries of the list,    *)
(* the inline jawbone, the owners of bound actions, a slider with a timer  *)
(* pending, an entered navigatable, and the slider of any of these.        *)
RECURSIVE Reach(_, _)
Reach(objects, ids) ==
    LET more == (ids \cup {objects[i].slider : i \in ids}) \ {0}
    IN  IF more = ids THEN ids ELSE Reach(objects, more)

Live(w) ==
    Reach(w.heap,
          ({w.navigatables[k] : k \in DOMAIN w.navigatables} \cup {w.inlineJawbone}
               \cup {w.actions[i].id[2] : i \in DOMAIN w.actions}
               \cup {i \in DOMAIN w.heap : w.heap[i].opening \/ w.heap[i].entered}) \ {0})

(* An object nothing refers to any more is garbage: its place in the heap  *)
(* is free for the next object created, and free places at the end are     *)
(* given up.                                                               *)
Collect(w) ==
    LET kept == Live(w)
        last == IF kept = {} THEN 0 ELSE CHOOSE i \in kept : \A j \in kept : j <= i
    IN  [i \in 1..last |-> IF i \in kept THEN w.heap[i] ELSE NewNavigatable("Dead", NoRow)]

Store(w) ==
    /\ heap' = Collect(w)
    /\ navigatables' = w.navigatables
    /\ position' = w.position
    /\ inlineJawbone' = w.inlineJawbone
    /\ actions' = w.actions
    /\ hints' = Values(w.actions)
    /\ navLog' = w.log
    /\ pressCalls' = <<>>
    /\ lastAction' = NoOp

(* A page just constructed, with a new ActionHandler, in a document. *)
NewPage(classes, documents) ==
    /\ pageClass \in classes
    /\ dom \in documents
    /\ heap = <<>>
    /\ navigatables = <<>>
    /\ position = 0
    /\ inlineJawbone = 0
    /\ loaded = FALSE
    /\ unloaded = FALSE
    /\ phase = "new"
    /\ waitResolved = FALSE
    /\ timer = FALSE
    /\ styled = FALSE
    /\ navLog = <<>>
    /\ onLoads = 0
    /\ lastPage = NoPageCall

(* No page has been made: a ChooseProfile page never loaded stands in. *)
NoPage == NewPage({"ChooseProfile"}, {EmptyDocument})

(* needsPseudoStyler of a page class *)
NeedsPseudoStyler(class) == class \in SliderBrowseClasses \cup {"ChooseProfile", "SearchBrowse"}

(* isPageReady of a page class: what the class looks for is in the         *)
(* document, and for a SliderBrowse the row it loads with exists.          *)
IsPageReady(class, d) ==
    d.ready /\ (class \in SliderBrowseClasses => LoadingRow(class) \in DOMAIN d.rows)

(* A readiness check that gives up waiting whatever it finds. *)
ReadinessReachedAlways(class, d) == TRUE

(* checkReadiness: if (_this.unloaded || _this.isPageReady()) *)
ReadinessReached(class, d) == unloaded \/ IsPageReady(class, d)

(* checkReadiness: resolve, or look again in 50 ms. *)
CheckReadiness ==
    IF ReadinessReached(pageClass, dom)
    THEN waitResolved' = TRUE /\ timer' = FALSE
    ELSE waitResolved' = FALSE /\ timer' = TRUE

(* load() up to its await: the styles start loading and the readiness is   *)
(* checked for the first time.                                             *)
Load ==
    /\ phase = "new"
    /\ phase' = "loading"
    /\ styled' = ~NeedsPseudoStyler(pageClass)
    /\ CheckReadiness
    /\ lastPage' = [NoPageCall EXCEPT !.op = "load"]
    /\ UNCHANGED <<pageClass, heap, navigatables, position, inlineJawbone, loaded, unloaded, dom,
                   navLog, onLoads, registryVars>>

(* The 50 ms timer of waitUntilReady fires. *)
ReadinessTimer ==
    /\ timer
    /\ CheckReadiness
    /\ lastPage' = [NoPageCall EXCEPT !.op = "checkReadiness"]
    /\ UNCHANGED <<pageClass, heap, navigatables, position, inlineJawbone, loaded, unloaded, phase,
                   styled, dom, navLog, onLoads, registryVars>>

(* loadDocumentStyles completes. *)
StylesLoaded ==
    /\ phase = "loading" /\ ~styled
    /\ styled' = TRUE
    /\ lastPage' = [NoPageCall EXCEPT !.op = "stylesLoaded"]
    /\ UNCHANGED <<pageClass, heap, navigatables, position, inlineJawbone, loaded, unloaded, phase,
                   waitResolved, timer, dom, navLog, onLoads, registryVars>>

(* A load() that goes on without looking at the unloaded flag. *)
StillWantedAlways == TRUE

(* load() after its await: if (!this.unloaded) *)
StillWanted == ~unloaded

(* load() after its await. *)
LoadContinues ==
    /\ phase = "loading" /\ waitResolved /\ styled
    /\ phase' = "done"
    /\ IF StillWanted
       THEN \E w \in {[made EXCEPT !.actions = BindAll(@, PageActions(pageClass))] :
                         made \in {OnLoad(pageClass, now, dom) : now \in {World}}} :
                /\ Store(w)
                /\ lastPage' = PageCall("onLoad", -1, w)
                /\ onInput' = "onInput"
                /\ loaded' = TRUE
                /\ onLoads' = onLoads + 1
                /\ UNCHANGED onDirection
       ELSE /\ lastPage' = [NoPageCall EXCEPT !.op = "loadSkipped"]
            /\ UNCHANGED <<heap, navigatables, position, inlineJawbone, loaded, navLog, onLoads,
                           registryVars>>
    /\ UNCHANGED <<pageClass, unloaded, waitResolved, timer, styled, dom>>

(* exit() and then cleanup() of one navigatable; every navigatable class   *)
(* has a cleanup method.                                                   *)
ExitAndCleanup(w, id) ==
    Only({Logged(left, "cleanup", id, NoParams) : left \in {NavigatableExit(w, id).w}})

(* An onUnload that exits and cleans up the current navigatable only. *)
ExitCurrent(w, list) == IF Current(w) # 0 THEN ExitAndCleanup(w, Current(w)) ELSE w

(* NavigatablePage.onUnload: exit() and cleanup() of every navigatable. *)
RECURSIVE ExitAll(_, _)
ExitAll(w, list) ==
    IF list = <<>>
    THEN w
    ELSE Only({ExitAll(left, rest) :
                   left \in {IF Head(list) # 0 THEN ExitAndCleanup(w, Head(list)) ELSE w},
                   rest \in {Tail(list)}})

(* NavigatablePage.onUnload; the registry calls that end it are logged     *)
(* after the calls on the navigatables.                                    *)
OnUnload(class, w) ==
    Only({Logged(Logged([left EXCEPT !.actions = UnbindAll(@, PageActions(class))],
                        "removeAll", 0, NoParams),
                 "onInput = null", 0, NoParams) :
              left \in {ExitAll(w, w.navigatables)}})

(* NavigatablePage.unload *)
Unload ==
    /\ ~unloaded
    /\ unloaded' = TRUE
    /\ IF loaded
       THEN /\ \E w \in {OnUnload(pageClass, now) : now \in {World}} : Store(w)
            /\ onInput' = "null"
            /\ UNCHANGED onDirection
       ELSE UNCHANGED <<heap, navigatables, position, inlineJawbone, navLog, registryVars>>
    /\ lastPage' = PageCall("unload", -1, World)
    /\ UNCHANGED <<pageClass, loaded, phase, waitResolved, timer, styled, dom, onLoads>>

(* A direction reaches the page: actionHandler.onDirection, set once the   *)
(* page is loaded, passes it to currentHandler.onDirectionAction.          *)
DirectionPress(direction) ==
    /\ loaded /\ ~unloaded
    /\ \E w \in {OnDirectionAction(pageClass, now, dom, direction) : now \in {World}} :
           Store(w) /\ lastPage' = PageCall("direction", direction, w)
    /\ UNCHANGED <<pageClass, loaded, unloaded, phase, waitResolved, timer, styled, dom, onLoads,
                   onInput, onDirection>>

(* The Close action of a jawbone, as bound in the registry, is pressed. *)
ClosePress ==
    /\ loaded /\ ~unloaded
    /\ BUTTON_LEFT \in DOMAIN actions
    /\ actions[BUTTON_LEFT].id[1] = "Close"
    /\ \E w \in {JawboneClose(now, actions[BUTTON_LEFT].id[2]) : now \in {World}} :
           Store(w) /\ lastPage' = PageCall("close", actions[BUTTON_LEFT].id[2], w)
    /\ UNCHANGED <<pageClass, loaded, unloaded, phase, waitResolved, timer, styled, dom, onLoads,
                   onInput, onDirection>>

(* The Expand action of a slider, as bound in the registry, is pressed: if *)
(* the page shows a hitzone it is clicked, and the host may have put the   *)
(* companion panel into the slider's row by the time click() returns.      *)
ExpandPress ==
    /\ loaded /\ ~unloaded
    /\ BUTTON_LEFT \in DOMAIN actions
    /\ actions[BUTTON_LEFT].id[1] = "Expand"
    /\ \E hitzone \in BOOLEAN, opened \in BOOLEAN, id \in {actions[BUTTON_LEFT].id[2]} :
           \E d \in {IF hitzone /\ opened THEN [dom EXCEPT !.jaws = @ \cup {heap[id].row}] ELSE dom} :
               /\ dom' = d
               /\ \E w \in {IF hitzone THEN OpenJawbone(now, d, id) ELSE now : now \in {World}} :
                      Store(w) /\ lastPage' = PageCall("expand", id, w)
    /\ UNCHANGED <<pageClass, loaded, unloaded, phase, waitResolved, timer, styled, onLoads,
                   onInput, onDirection>>

(* The timer of openJawbone of a slider is due. *)
PanelTimer(id) ==
    /\ loaded /\ ~unloaded
    /\ id \in DOMAIN heap
    /\ heap[id].opening
    /\ \E w \in {JawboneTimer(now, dom, id) : now \in {World}} :
           Store(w) /\ lastPage' = PageCall("panelTimer", id, w)
    /\ UNCHANGED <<pageClass, loaded, unloaded, phase, waitResolved, timer, styled, dom, onLoads,
                   onInput, onDirection>>

(* The document changes under the page. *)
DomChange(d) ==
    /\ d # dom
    /\ dom' = d
    /\ lastPage' = [NoPageCall EXCEPT !.op = "domChange"]
    /\ UNCHANGED <<pageClass, heap, navigatables, position, inlineJawbone, loaded, unloaded, phase,
                   waitResolved, timer, styled, navLog, onLoads, registryVars>>

----------------------------------------------------------------------------
(* Specifications.  Each one is the same handler code driven with its own  *)
(* small set of host devices and caller arguments.                         *)

----------------------------------------------------------------------------
(* StaticNavigatable: a navigatable over a list of elements that is read   *)
(* from the document once and cached.  The repository holds two versions   *)
(* of the class: one that checks the position and the element before it    *)
(* styles (guarded) and one that does not.  An element is a record: it is  *)
(* still in the document (connected), the style hook of the subclass is on *)
(* (style), the outline is on (outline).  Positions count from 0, as in    *)
(* the code.  The hooks style() and scrollIntoView() of the base class do  *)
(* not throw.                                                              *)
MaxComponents == 2

NewComponent == [connected |-> TRUE, style |-> FALSE, outline |-> FALSE]

(* The state an operation works on: the elements, position, the elements   *)
(* as they were between unselect() and the styling of select() (mid), and  *)
(* whether the call threw.                                                 *)
Static(list, at) == [components |-> list, position |-> at, mid |-> list, threw |-> FALSE]

(* getSelectedComponent() finds an element. *)
HasComponent(s, p) == p >= 0 /\ p < Len(s.components)

(* unselect(): the guarded class skips a missing element and leaves the    *)
(* outline of a detached one; the other reads .style of undefined.         *)
StaticUnselect(g, s) ==
    IF s.position < 0 THEN s
    ELSE IF ~HasComponent(s, s.position)
    THEN IF g THEN s ELSE [s EXCEPT !.threw = TRUE]
    ELSE [s EXCEPT !.components[s.position + 1] =
              [connected |-> @.connected,
               style |-> FALSE,
               outline |-> IF g /\ ~@.connected THEN @.outline ELSE FALSE]]

(* The second half of select(position), after unselect() returned. *)
StaticStyle(g, s, p) ==
    IF ~HasComponent(s, p)
    THEN IF g THEN s ELSE [s EXCEPT !.threw = TRUE]
    ELSE IF g /\ ~s.components[p + 1].connected THEN s
    ELSE [s EXCEPT !.components[p + 1] =
              [connected |-> @.connected, style |-> TRUE, outline |-> TRUE]]

(* select(position) without its first statement, unselect(). *)
StaticSelectKeeping(g, s, p) ==
    StaticStyle(g, [s EXCEPT !.position = p, !.mid = s.components], p)

StaticSelect(g, s, p) ==
    Only({IF u.threw THEN u
          ELSE StaticStyle(g, [u EXCEPT !.position = p, !.mid = u.components], p) :
          u \in {StaticUnselect(g, s)}})

StaticLeft(g, s) == IF s.position > 0 THEN StaticSelect(g, s, s.position - 1) ELSE s

(* right() that goes round to the first element at the end of the list. *)
StaticRightWrapping(g, s) ==
    StaticSelect(g, s, IF s.position < Len(s.components) - 1 THEN s.position + 1 ELSE 0)

StaticRight(g, s) ==
    IF s.position < Len(s.components) - 1 THEN StaticSelect(g, s, s.position + 1) ELSE s

StaticEnter(g, s) == StaticSelect(g, s, 0)

(* exit() returns an empty transfer object. *)
StaticExit(g, s) ==
    Only({IF u.threw THEN u ELSE [u EXCEPT !.position = -1, !.mid = u.components] :
          u \in {StaticUnselect(g, s)}})

NoStaticCall == [op |-> "none", arg |-> -1, before |-> -1, exited |-> -1,
                 prev |-> [op |-> "none", arg |-> -1],
                 mid |-> <<>>, was |-> <<>>, threw |-> FALSE]

(* A call on the StaticNavigatable; exited is the position the exit() just *)
(* before this call left, -1 when the call before was not an exit(); prev  *)
(* is the call before this one, was the elements when this call began.     *)
StaticCall(op, arg, r) ==
    /\ components' = r.components
    /\ staticPosition' = r.position
    /\ staticCall' = [op |-> op, arg |-> arg, before |-> staticPosition,
                      exited |-> IF staticCall.op = "exit" /\ ~staticCall.threw
                                 THEN staticCall.before ELSE -1,
                      prev |-> [op |-> staticCall.op, arg |-> staticCall.arg],
                      mid |-> r.mid, was |-> components, threw |-> r.threw]
    /\ UNCHANGED <<guarded, rowSlider, sliderCall>>

CallSelect(p) ==
    StaticCall("select", p, StaticSelect(guarded, Static(components, staticPosition), p))

CallLeft == StaticCall("left", -1, StaticLeft(guarded, Static(components, staticPosition)))

CallRight == StaticCall("right", -1, StaticRight(guarded, Static(components, staticPosition)))

CallEnter == StaticCall("enter", -1, StaticEnter(guarded, Static(components, staticPosition)))

CallExit == StaticCall("exit", -1, StaticExit(guarded, Static(components, staticPosition)))

(* The page removes an element of the cached list from the document. *)
Detach(i) ==
    /\ i \in 1..Len(components)
    /\ components[i].connected
    /\ StaticCall("detach", i - 1,
                  Static([components EXCEPT ![i].connected = FALSE], staticPosition))

(* Slider: a navigatable over one row of the browse page.  The row node is *)
(* the sequence of the children of its .sliderContent: an item on screen   *)
(* has the class slider-item-N, with N its number, an item off screen the  *)
(* class slider-item- without a number.  sliderItem is the child selected, *)
(* by its place in that sequence, 0 for null.                              *)
Unnumbered == -1

Undefined == -2

MaxItem == 2

MaxTimers == 2

ThisRow == 0

Numbered(k) == [i \in 1..(k + 1) |-> i - 1]

RowLayouts ==
    {<<>>} \cup {lead \o Numbered(k) \o trail :
                     lead \in {<<>>, <<Unnumbered>>}, trail \in {<<>>, <<Unnumbered>>},
                     k \in 0..MaxItem}

(* new Slider(row, rowNode), without a position. *)
NewSlider(children) ==
    [children |-> children, canShiftLeft |-> FALSE, locked |-> FALSE, jawboneOpen |-> FALSE,
     position |-> 0, sliderItem |-> 0, timers |-> <<>>]

NoSlider == NewSlider(<<>>)

(* Slider.hasPosition *)
HasPosition(s, p) == p >= 0 /\ \E i \in 1..Len(s.children) : s.children[i] = p

(* rowNode.querySelector(".slider-item-" + p): the first such child. *)
ItemAt(s, p) ==
    CHOOSE i \in 1..Len(s.children) :
        s.children[i] = p /\ \A j \in 1..(i - 1) : s.children[j] # p

(* Slider.selectPosition: the timer that ends the lock is set only when    *)
(* the item exists.                                                        *)
SelectPosition(s, p) ==
    IF ~HasPosition(s, p)
    THEN [s EXCEPT !.locked = TRUE]
    ELSE [s EXCEPT !.locked = TRUE,
                   !.timers = Append(@, [kind |-> "over", target |-> 0]),
                   !.sliderItem = ItemAt(s, p),
                   !.position = p]

(* The loop of Slider.enter: from position downward until hasPosition.     *)
(* It has no lower end: when no item at or below position exists it never  *)
(* finds one, and found stays FALSE.                                       *)
RECURSIVE WalkBack(_, _)
WalkBack(s, p) ==
    IF HasPosition(s, p) THEN [found |-> TRUE, position |-> p]
    ELSE IF \A i \in 1..Len(s.children) : s.children[i] = Unnumbered \/ s.children[i] > p
    THEN [found |-> FALSE, position |-> p]
    ELSE WalkBack(s, p - 1)

(* Slider.enter: the state it leaves and whether it returned. *)
SliderEnter(s, params) ==
    LET open == [s EXCEPT !.jawboneOpen = IF params.jawboneClosed THEN FALSE ELSE @]
        walk == WalkBack(open, params.position + (IF open.canShiftLeft THEN 1 ELSE 0))
    IN  IF params.position # Undefined /\ (params.jawboneRow = -1 \/ params.jawboneRow = ThisRow)
        THEN IF walk.found
             THEN [s |-> SelectPosition(open, walk.position), returned |-> TRUE]
             ELSE [s |-> open, returned |-> FALSE]
        ELSE [s |-> SelectPosition(open, 0), returned |-> TRUE]

(* Slider.exit: the transfer object it returns. *)
SliderExit(s) ==
    [position |-> s.position - (IF s.canShiftLeft THEN 1 ELSE 0),
     jawboneRow |-> -1, jawboneClosed |-> FALSE]

(* The sibling of a child on one side, 0 for none. *)
Sibling(s, i, next) ==
    IF i = 0 THEN 0
    ELSE IF next THEN (IF i + 1 <= Len(s.children) THEN i + 1 ELSE 0)
    ELSE i - 1

(* Slider.select(next), called by right() and left(); shiftSlider sets     *)
(* canShiftLeft.  The removal of the companion panel from the page is      *)
(* taken with the page.                                                    *)
SliderSelect(s, next) ==
    LET target == Sibling(s, s.sliderItem, next)
        targetSibling == Sibling(s, target, next)
        moved ==
            IF targetSibling # 0 /\ s.children[targetSibling] = Unnumbered
            THEN [s EXCEPT !.locked = TRUE, !.canShiftLeft = TRUE,
                           !.timers = Append(@, [kind |-> "shifted", target |-> target])]
            ELSE SelectPosition(s, s.position + (IF next THEN 1 ELSE -1))
    IN  IF s.locked \/ target = 0 THEN s ELSE [moved EXCEPT !.jawboneOpen = FALSE]

(* Slider.getShiftedPosition of the child in a place; parseInt of a class  *)
(* without a number is NaN, which is not 0.                                *)
GetShiftedPosition(s, target) ==
    IF target \in 1..Len(s.children) /\ s.children[target] = 0
    THEN Cardinality({i \in 1..Len(s.children) : s.children[i] # Unnumbered}) - 2
    ELSE 1

(* Slider.openJawbone in a row that shows a hitzone or not and holds a     *)
(* companion panel (.jawBoneContainer) or not; the move of the page in the *)
(* callback of the timer is taken with the page.                           *)
SliderOpenJawbone(s, hitzone, container) ==
    IF s.locked \/ ~hitzone THEN s
    ELSE IF container
    THEN [s EXCEPT !.locked = TRUE, !.timers = Append(@, [kind |-> "opened", target |-> 0])]
    ELSE [s EXCEPT !.locked = TRUE]

(* The callback of a timer of the Slider. *)
TimerCallback(s, t) ==
    IF t.kind = "over" THEN [s EXCEPT !.locked = FALSE]
    ELSE IF t.kind = "opened" THEN [s EXCEPT !.jawboneOpen = TRUE, !.locked = FALSE]
    ELSE [SelectPosition(s, GetShiftedPosition(s, t.target)) EXCEPT !.locked = FALSE]

NoSliderCall == [op |-> "none", params |-> SliderExit(NoSlider), returned |-> TRUE,
                 before |-> 0, exited |-> Undefined, transfer |-> SliderExit(NoSlider)]

(* A call on the Slider.  exited is the position the Slider had before the *)
(* exit() just before this call and transfer what that exit() returned;    *)
(* a call that does not return leaves the page hanging in it.              *)
SliderCall(op, params, r, returned) ==
    /\ sliderCall.returned
    /\ Len(r.timers) <= MaxTimers
    /\ rowSlider' = r
    /\ sliderCall' = [op |-> op, params |-> params, returned |-> returned,
                      before |-> rowSlider.position,
                      exited |-> IF sliderCall.op = "exit" THEN sliderCall.before ELSE Undefined,
                      transfer |-> IF op = "exit" THEN SliderExit(rowSlider)
                                   ELSE IF sliderCall.op = "exit" THEN sliderCall.transfer
                                   ELSE NoSliderCall.transfer]
    /\ UNCHANGED <<guarded, components, staticPosition, staticCall>>

CallSliderEnter(params) ==
    \E r \in {SliderEnter(rowSlider, params)} : SliderCall("enter", params, r.s, r.returned)

CallSliderExit == SliderCall("exit", NoSliderCall.params, rowSlider, TRUE)

CallSliderLeft == SliderCall("left", NoSliderCall.params, SliderSelect(rowSlider, FALSE), TRUE)

CallSliderRight == SliderCall("right", NoSliderCall.params, SliderSelect(rowSlider, TRUE), TRUE)

CallOpenJawbone(hitzone, container) ==
    SliderCall("openJawbone", NoSliderCall.params, SliderOpenJawbone(rowSlider, hitzone, container), TRUE)

(* A timer of the Slider is due. *)
SliderTimer(k) ==
    /\ k \in 1..Len(rowSlider.timers)
    /\ \E t \in {rowSlider.timers[k]}, rest \in {SpliceOut(rowSlider.timers, k - 1)} :
           SliderCall("timer", NoSliderCall.params,
                      TimerCallback([rowSlider EXCEPT !.timers = rest], t), TRUE)

(* The host renders the row anew, after a shift or on its own; a selected  *)
(* child that is gone is as good as null to the Slider.                    *)
RowChange(layout) ==
    /\ layout # rowSlider.children
    /\ SliderCall("row", NoSliderCall.params,
                  [rowSlider EXCEPT !.children = layout,
                                    !.sliderItem = IF @ <= Len(layout) THEN @ ELSE 0],
                  TRUE)

NoComponents ==
    /\ guarded = TRUE
    /\ components = <<>>
    /\ staticPosition = -1
    /\ staticCall = NoStaticCall
    /\ rowSlider = NoSlider
    /\ sliderCall = NoSliderCall

----------------------------------------------------------------------------
(* The joystick repeater of the content script: a stick held in a          *)
(* direction gives onDirection calls at a rate.                            *)

MaxRepeatTimers == 3

RepeaterAxes == {0, 1}

RepeaterDeadzones == {10, 50}

StickValues == {-90, -50, 0, 50, 90}

(* directions[axis] = -1 *)
NEUTRAL == -1

(* axis in directions is false *)
ABSENT == -2

(* const timeouts = {}; const directions = {}; no timer set, no call made. *)
NewRepeater ==
    [directions |-> [axis \in RepeaterAxes |-> ABSENT],
     timeouts |-> [axis \in RepeaterAxes |-> 0],
     pending |-> {},
     emitted |-> <<>>]

(* The id setTimeout returns: one no pending timer has and timeouts does   *)
(* not hold.                                                               *)
TimerId(r) ==
    CHOOSE id \in 1..(MaxRepeatTimers + Cardinality(RepeaterAxes) + 1) :
        /\ \A t \in r.pending : t.id # id
        /\ \A axis \in RepeaterAxes : r.timeouts[axis] # id
        /\ \A other \in 1..(id - 1) :
               \/ \E t \in r.pending : t.id = other
               \/ \E axis \in RepeaterAxes : r.timeouts[axis] = other

(* rateLimitJoystickDirection(axis, 500): onDirection and a timer that     *)
(* calls it again, unless the axis is neutral or there is no onDirection.  *)
RateLimitJoystickDirection(r, axis, handler) ==
    IF r.directions[axis] # NEUTRAL /\ handler # "null"
    THEN [r EXCEPT !.emitted = Append(@, [axis |-> axis, direction |-> r.directions[axis]]),
                   !.timeouts[axis] = TimerId(r),
                   !.pending = @ \cup {[id |-> TimerId(r), axis |-> axis]}]
    ELSE r

(* checkJoystickDirection(gamepad, axis, value, pos, neg) *)
CheckJoystickDirection(r, deadzone, axis, value, pos, neg, handler) ==
    IF Abs(value) >= 100 - deadzone
    THEN IF r.directions[axis] # (IF value > 0 THEN pos ELSE neg)
         THEN RateLimitJoystickDirection(
                  [r EXCEPT !.directions[axis] = IF value > 0 THEN pos ELSE neg], axis, handler)
         ELSE r
    ELSE [r EXCEPT !.directions[axis] = NEUTRAL,
                   !.timeouts[axis] = 0,
                   !.pending = {t \in @ : t.id # r.timeouts[axis]}]

(* The joystickmove listener of a connected gamepad: both axes of the left *)
(* stick are looked at, the horizontal one first.                          *)
JoystickMoveListener(deadzone, horizontalValue, verticalValue) ==
    /\ \E after \in {CheckJoystickDirection(
                         CheckJoystickDirection([repeater EXCEPT !.emitted = <<>>],
                                                deadzone, 0, horizontalValue, RIGHT, LEFT,
                                                onDirection),
                         deadzone, 1, verticalValue, DOWN, UP, onDirection)} :
           /\ Cardinality(after.pending) <= MaxRepeatTimers
           /\ repeater' = after
    /\ UNCHANGED <<errorBar, router, modal>>

(* A timer of the repeater is due. *)
RepeatTimer(id) ==
    /\ \E t \in repeater.pending :
           /\ t.id = id
           /\ repeater' = RateLimitJoystickDirection(
                              [repeater EXCEPT !.emitted = <<>>, !.pending = @ \ {t}],
                              t.axis, onDirection)
    /\ UNCHANGED <<errorBar, router, modal>>

----------------------------------------------------------------------------
(* ModalDetector: the detail modal is detected in the URL and in the       *)
(* document, and a ModalContainer is made for it half a second later.      *)

MaxModalTimers == 3

MaxContainers == 3

NoModalCall == [op |-> "none", held |-> 0, created |-> 0]

(* A new ModalDetector in a document without a modal.  containers are the  *)
(* ModalContainers created that did not receive cleanup().                 *)
NewModalDetector ==
    [isModalOpen |-> FALSE,
     modalContainer |-> 0,
     jbv |-> FALSE,
     element |-> FALSE,
     timers |-> 0,
     containers |-> {},
     last |-> NoModalCall]

(* new ModalContainer(): an object that no reference held before. *)
NewContainer(d) ==
    CHOOSE id \in (1..(MaxContainers + 1)) \ d.containers :
        \A other \in (1..(MaxContainers + 1)) \ d.containers : id <= other

(* The callback handleModalOpen gives to setTimeout. *)
CreateContainer(d) ==
    IF ~d.isModalOpen \/ ~d.element
    THEN d
    ELSE [d EXCEPT !.modalContainer = NewContainer(d),
                   !.containers = @ \cup {NewContainer(d)},
                   !.last.created = NewContainer(d)]

(* handleModalOpen(modalId) up to its setTimeout *)
HandleModalOpen(d) ==
    IF d.isModalOpen
    THEN d
    ELSE [d EXCEPT !.isModalOpen = TRUE, !.timers = @ + 1]

(* handleModalClose() *)
HandleModalClose(d) ==
    IF ~d.isModalOpen
    THEN d
    ELSE [d EXCEPT !.isModalOpen = FALSE,
                   !.modalContainer = 0,
                   !.containers = @ \ {d.modalContainer}]

DetectorCalled(d, op) == [d EXCEPT !.last = [op |-> op, held |-> d.modalContainer, created |-> 0]]

(* checkUrlForModal(), every 200 ms, with what the URL holds then. *)
CheckUrlForModal(jbv) ==
    /\ \E d \in {[DetectorCalled(modal, "checkUrlForModal") EXCEPT !.jbv = jbv]} :
           /\ modal' = IF jbv /\ ~d.isModalOpen THEN HandleModalOpen(d)
                       ELSE IF ~jbv /\ d.isModalOpen THEN HandleModalClose(d)
                       ELSE d
           /\ modal'.timers <= MaxModalTimers
    /\ UNCHANGED <<errorBar, router, repeater>>

(* The callback of the MutationObserver for a childList mutation: the      *)
(* modal element was added or removed, or something else changed.          *)
ObserveMutation(jbv, element) ==
    /\ \E d \in {[DetectorCalled(modal, "mutation") EXCEPT !.jbv = jbv, !.element = element]} :
       \E opened \in {IF element /\ ~modal.element /\ ~d.isModalOpen /\ jbv
                      THEN HandleModalOpen(d) ELSE d} :
           /\ modal' = IF opened.isModalOpen /\ ~element THEN HandleModalClose(opened) ELSE opened
           /\ modal'.timers <= MaxModalTimers
    /\ UNCHANGED <<errorBar, router, repeater>>

(* A timer of handleModalOpen is due. *)
CreationTimer ==
    /\ modal.timers > 0
    /\ modal' = CreateContainer([DetectorCalled(modal, "timer") EXCEPT !.timers = @ - 1])
    /\ Cardinality(modal'.containers) <= MaxContainers
    /\ UNCHANGED <<errorBar, router, repeater>>

----------------------------------------------------------------------------
(* The content script: runHandler, loadPage, unload, goBack and the        *)
(* profile popup, over the pages made so far.                              *)

MaxPages == 3

RouterPaths == {"/title/1", "/watch/1", "/other"}

(* The first class of pageHandlers whose validatePath accepts the path, in *)
(* a document without .list-profiles; "none" when no class does.           *)
HandlerFor(path) ==
    IF path = "/title/1" THEN "PureSliderBrowse"
    ELSE IF path = "/watch/1" THEN "WatchVideo"
    ELSE "none"

(* let currentPath = null; const handlerHistory = []; let currentHandler = *)
(* null.  pages are the NavigatablePage instances in the order they were   *)
(* made; lastStarted and overlapped are history of the runHandler calls.   *)
NewRouter ==
    [currentHandler |-> 0,
     currentPath |-> "null",
     handlerHistory |-> <<>>,
     pages |-> <<>>,
     lastStarted |-> "null",
     overlapped |-> FALSE]

(* new handlerClass() followed by load() up to its await: the styles start *)
(* loading when the class needs them and the readiness is checked once.    *)
(* path is the path of the runHandler call that awaits loadPage, "" when   *)
(* nothing awaits it; early is history: unload() came before the load      *)
(* completed.                                                              *)
NewPageInstance(class, path, ready) ==
    [class |-> class,
     path |-> path,
     loaded |-> FALSE,
     unloaded |-> FALSE,
     stage |-> "loading",
     waitResolved |-> ready,
     timer |-> ~ready,
     styled |-> ~NeedsPseudoStyler(class),
     onLoads |-> 0,
     early |-> FALSE]

(* A runHandler call is at its await. *)
Awaiting(r) == \E i \in DOMAIN r.pages : r.pages[i].stage = "loading" /\ r.pages[i].path # ""

(* NavigatablePage.unload() *)
PageUnload(page) ==
    [page EXCEPT !.unloaded = TRUE, !.early = @ \/ page.stage = "loading"]

(* unload() of the content script *)
RouterUnload(r) ==
    IF r.currentHandler # 0
    THEN [r EXCEPT !.pages[r.currentHandler] = PageUnload(@), !.currentHandler = 0]
    ELSE r

(* A load() that goes on to onLoad whether the page was unloaded or not. *)
LoadResumesUnchecked(page) ==
    [page EXCEPT !.stage = "done", !.loaded = TRUE, !.onLoads = @ + 1]

(* load() after its await: if (!this.unloaded) { onLoad(); ...; loaded = true } *)
LoadResumes(page) ==
    IF ~page.unloaded
    THEN [page EXCEPT !.stage = "done", !.loaded = TRUE, !.onLoads = @ + 1]
    ELSE [page EXCEPT !.stage = "done"]

(* What runs once both promises of load() are resolved: the rest of        *)
(* load(), of loadPage and, when runHandler awaits it, of runHandler,      *)
(* which assigns currentPath.                                              *)
Resume(r, i) ==
    IF r.pages[i].stage = "loading" /\ r.pages[i].waitResolved /\ r.pages[i].styled
    THEN [r EXCEPT !.pages[i] = LoadResumes(@),
                   !.currentPath = IF r.pages[i].path # "" THEN r.pages[i].path ELSE @]
    ELSE r

(* addHistory() at a location *)
AddHistory(history, location) ==
    IF Len(history) > 0 /\ history[Len(history)] = location
    THEN history
    ELSE Append(history, location)

(* loadPage(handlerClass) *)
LoadPage(r, class, path, location, ready) ==
    Resume([r EXCEPT !.pages = Append(@, NewPageInstance(class, path, ready)),
                     !.currentHandler = Len(r.pages) + 1,
                     !.handlerHistory = IF class # "ChooseProfile"
                                        THEN AddHistory(@, location) ELSE @],
           Len(r.pages) + 1)

(* runHandler(path, forceLoad), the page ready or not when load() looks. *)
RunHandler(path, forceLoad, ready) ==
    /\ \E r \in {[router EXCEPT !.lastStarted = path, !.overlapped = Awaiting(router)]} :
           router' = IF forceLoad \/ path # r.currentPath
                     THEN IF HandlerFor(path) # "none"
                          THEN LoadPage(RouterUnload(r), HandlerFor(path), path, path, ready)
                          ELSE [RouterUnload(r) EXCEPT !.currentPath = path]
                     ELSE r
    /\ Len(router'.pages) <= MaxPages
    /\ UNCHANGED <<errorBar, repeater, modal>>

(* The observer of the profile popup sees .profiles-gate-container added. *)
ProfilePopup(ready) ==
    /\ router' = LoadPage(RouterUnload(router), "ChooseProfile", "", "", ready)
    /\ Len(router'.pages) <= MaxPages
    /\ UNCHANGED <<errorBar, repeater, modal>>

(* goBack() with no modal open *)
GoBack ==
    /\ ~modal.isModalOpen
    /\ router' = IF Len(router.handlerHistory) > 0
                 THEN [RouterUnload(router) EXCEPT
                          !.handlerHistory = SubSeq(@, 1, Len(@) - 1)]
                 ELSE router
    /\ UNCHANGED <<errorBar, repeater, modal>>

(* The timer of checkReadiness of a page is due. *)
RouterTimer(i, ready) ==
    /\ i \in DOMAIN router.pages
    /\ router.pages[i].timer
    /\ router' = IF router.pages[i].unloaded \/ ready
                 THEN Resume([router EXCEPT !.pages[i].waitResolved = TRUE,
                                            !.pages[i].timer = FALSE], i)
                 ELSE router
    /\ UNCHANGED <<errorBar, repeater, modal>>

(* loadDocumentStyles of a page is done. *)
RouterStyles(i) ==
    /\ i \in DOMAIN router.pages
    /\ ~router.pages[i].styled
    /\ router' = Resume([router EXCEPT !.pages[i].styled = TRUE], i)
    /\ UNCHANGED <<errorBar, repeater, modal>>

----------------------------------------------------------------------------
(* The button listeners of the content script: each buttonpress event of   *)
(* a poll goes to actionHandler.onButtonPress inside a try, and what is    *)
(* caught goes to the error bar.                                           *)

MaxPresses == 2

ERROR_ALERT_DURATION == 10000

PressButtons == {D_PAD_UP, D_PAD_BOTTOM, D_PAD_LEFT, D_PAD_RIGHT, BUTTON_BOTTOM}

PressRows ==
    {(0 :> "slider"), (0 :> "slider") @@ (1 :> "slider"),
     (0 :> "slider") @@ (1 :> "slider") @@ (2 :> "slider")}

(* position and navigatables of the page *)
PageSnapshot(w) == [position |-> w.position, navigatables |-> w.navigatables]

(* The error bar without a message.  The other fields are history of the   *)
(* last poll: the events it made, the events its listeners were called     *)
(* for, whether a press threw, and the page before and after that press.   *)
NoErrorBar ==
    [shown |-> FALSE, timeout |-> -1, events |-> 0, dispatched |-> 0, failed |-> FALSE,
     before |-> [position |-> 0, navigatables |-> <<>>],
     after |-> [position |-> 0, navigatables |-> <<>>]]

(* showTempError(error): errorBar.setError(message, ERROR_ALERT_DURATION)  *)
(* and errorBar.add().                                                     *)
ShowTempError(bar) == [bar EXCEPT !.shown = TRUE, !.timeout = ERROR_ALERT_DURATION]

(* The onPress of an action: Select of a StaticNavigatable clicks its      *)
(* selected component, which throws when there is none; Play clicks an     *)
(* element of the row.                                                     *)
OnPress(w, action) ==
    IF action.id[1] = "Select" /\ w.heap[action.id[2]].kind = "Menu" /\ w.heap[action.id[2]].hollow
    THEN [w EXCEPT !.threw = TRUE]
    ELSE w

(* ActionHandler.onButtonPress(index) with the callbacks a loaded page     *)
(* set: onInput does nothing, onDirection is the page's onDirectionAction. *)
PageOnButtonPress(class, w, d, direct, index) ==
    Only({IF directed.threw \/ index \notin DOMAIN directed.actions
          THEN directed
          ELSE OnPress(directed, directed.actions[index]) :
              directed \in {IF index \in DOMAIN DIRECTION_MAP /\ direct # "null"
                            THEN OnDirectionAction(class, w, d, DIRECTION_MAP[index])
                            ELSE w}})

(* The listener of buttonpress: try { actionHandler.onButtonPress(index) } *)
(* catch (error) { showTempError(error) }                                  *)
ButtonListener(class, d, direct, s, index) ==
    Only({IF pressed.threw
          THEN [w |-> [pressed EXCEPT !.threw = FALSE],
                bar |-> ShowTempError([s.bar EXCEPT !.dispatched = @ + 1, !.failed = TRUE,
                                                    !.before = PageSnapshot(s.w),
                                                    !.after = PageSnapshot(pressed)]),
                propagated |-> FALSE]
          ELSE [w |-> pressed, bar |-> [s.bar EXCEPT !.dispatched = @ + 1], propagated |-> FALSE] :
              pressed \in {PageOnButtonPress(class, s.w, d, direct, index)}})

(* The listeners called for the buttonpress events of a poll, in order; an *)
(* error that leaves a listener ends the poll.                             *)
RECURSIVE DispatchPresses(_, _, _, _, _)
DispatchPresses(class, d, direct, s, indices) ==
    IF indices = <<>> \/ s.propagated
    THEN s
    ELSE DispatchPresses(class, d, direct, ButtonListener(class, d, direct, s, Head(indices)),
                         Tail(indices))

(* A poll during which the buttons with the given indices went down. *)
PollPresses(indices) ==
    /\ loaded /\ ~unloaded
    /\ \E s \in {DispatchPresses(pageClass, dom, onDirection,
                                 [w |-> now,
                                  bar |-> [errorBar EXCEPT !.events = Len(indices), !.dispatched = 0,
                                                           !.failed = FALSE,
                                                           !.before = NoErrorBar.before,
                                                           !.after = NoErrorBar.after],
                                  propagated |-> FALSE],
                                 indices) : now \in {World}} :
           /\ Store(s.w)
           /\ errorBar' = s.bar
           /\ lastPage' = [PageCall("poll", Len(indices), s.w) EXCEPT !.threw = s.propagated]
    /\ UNCHANGED <<pageClass, loaded, unloaded, phase, waitResolved, timer, styled, dom, onLoads,
                   onInput, onDirection>>
    /\ UNCHANGED <<router, repeater, modal>>

NoApp ==
    /\ errorBar = NoErrorBar
    /\ router = NewRouter
    /\ repeater = NewRepeater
    /\ modal = NewModalDetector

InitWith(slots, hosts) ==
    /\ live \in hosts
    /\ gamepads = <<>>
    /\ events = <<>>
    /\ prevInput = [i \in slots |-> Null]
    /\ lastInput = [i \in slots |-> Null]
    /\ connLog = <<>>
    /\ registered = <<>>
    /\ lastCall = NoCall

Released == [pressed |-> FALSE, value |-> 0]

HalfPressed == [pressed |-> FALSE, value |-> 50]

Pressed == [pressed |-> TRUE, value |-> 100]

JOYSTICK_LEFT == ArrKey("JOYSTICK_LEFT", <<0, 1>>)

(* Spec: one device with two buttons and one joystick, on both kinds of    *)
(* host, reported connected or not.                                        *)
PadSlots == {0}

PadRows ==
    [connected : BOOLEAN,
     buttons : {<<Released, Released>>, <<Pressed, Released>>, <<Released, Pressed>>,
                <<HalfPressed, Pressed>>},
     axes : {<<0, 0>>, <<50, 0>>}]

Init == InitWith(PadSlots, BOOLEAN) /\ LoopIdle /\ RegistryIdle /\ NoPage /\ NoComponents /\ NoApp

Next ==
    /\ UNCHANGED besideGamepads
    /\ \/ \E arr \in HostArrays(PadSlots, PadRows, TRUE) : Poll(arr)
       \/ \E pad \in PadSlots : AddEventListener(pad, "joystickmove", 1, JOYSTICK_LEFT)

Spec == Init /\ [][Next]_vars

(* SpecPoll: several devices that come and go, each with one idle button. *)
NumSlots == 3

PollSlots == 0..(NumSlots - 1)

PollRows == [connected : {TRUE}, buttons : {<<Released>>}, axes : {<<>>}]

InitPoll == InitWith(PollSlots, BOOLEAN) /\ LoopIdle /\ RegistryIdle /\ NoPage /\ NoComponents /\ NoApp

NextPoll ==
    /\ UNCHANGED besideGamepads
    /\ \E arr \in HostArrays(PollSlots, PollRows, FALSE) : PollLogged(arr)

SpecPoll == InitPoll /\ [][NextPoll]_vars

(* SpecDispatch: one device with two buttons; callers add and remove     *)
(* buttonpress listeners for button 0 and for every button (-1).  Listener *)
(* 2 consumes the events it is given.                                      *)
DispatchRows == [connected : {TRUE},
                 buttons : {<<Released, Released>>, <<Pressed, Released>>, <<Pressed, Pressed>>},
                 axes : {<<>>}]

DispatchKeys == {NumKey(0), NumKey(WildcardIndex)}

DispatchAdds == (Listeners \X {NumKey(0)}) \cup ({2, 3} \X {NumKey(WildcardIndex)})

InitDispatch == InitWith(PadSlots, {FALSE}) /\ LoopIdle /\ RegistryIdle /\ NoPage /\ NoComponents /\ NoApp

NextDispatch ==
    /\ UNCHANGED besideGamepads
    /\ \/ \E arr \in HostArrays(PadSlots, DispatchRows, FALSE) : Poll(arr)
       \/ \E pad \in PadSlots, add \in DispatchAdds :
              AddEventListener(pad, "buttonpress", add[1], add[2])
       \/ \E pad \in PadSlots, key \in DispatchKeys :
              RemoveEventListener(pad, "buttonpress", 1, key)

SpecDispatch == InitDispatch /\ [][NextDispatch]_vars

(* SpecDeadzone: one device with one joystick; callers set the joystick  *)
(* deadzone and the deadzone of axis 0, valid or not, and add an           *)
(* axischange listener for axis 0 and a joystickmove listener.             *)
DeadzoneRows == [connected : {TRUE}, buttons : {<<>>},
                 axes : {<<0, 0>>, <<5, 0>>, <<20, 0>>, <<-20, 0>>, <<0, 20>>}]

DeadzoneArgs == {Num(-10), Num(0), Num(10), Num(20), Num(100), NaN}

InitDeadzone == InitWith(PadSlots, {FALSE}) /\ LoopIdle /\ RegistryIdle /\ NoPage /\ NoComponents /\ NoApp

NextDeadzone ==
    /\ UNCHANGED besideGamepads
    /\ \/ \E arr \in HostArrays(PadSlots, DeadzoneRows, FALSE) : Poll(arr)
       \/ \E pad \in PadSlots, deadzone \in DeadzoneArgs : SetJoystickDeadzone(pad, deadzone)
       \/ \E pad \in PadSlots, deadzone \in DeadzoneArgs : SetAxisDeadzone(pad, 0, deadzone)
       \/ \E pad \in PadSlots : AddEventListener(pad, "axischange", 1, NumKey(0))
       \/ \E pad \in PadSlots : AddEventListener(pad, "joystickmove", 1, JOYSTICK_LEFT)

SpecDeadzone == InitDeadzone /\ [][NextDeadzone]_vars

(* SpecJoystick: one device with one joystick; callers add and remove     *)
(* joystickmove listeners with a number, -1, or an array of one, two or    *)
(* three axes as index.                                                    *)
JoystickRows == [connected : {TRUE}, buttons : {<<>>}, axes : {<<0, 0>>, <<50, 0>>, <<0, 50>>}]

JoystickKeys == {NumKey(WildcardIndex), NumKey(0), JOYSTICK_LEFT,
                 ArrKey("one", <<0>>), ArrKey("three", <<0, 1, 2>>)}

InitJoystick == InitWith(PadSlots, {FALSE}) /\ LoopIdle /\ RegistryIdle /\ NoPage /\ NoComponents /\ NoApp

NextJoystick ==
    /\ UNCHANGED besideGamepads
    /\ \/ \E arr \in HostArrays(PadSlots, JoystickRows, FALSE) : Poll(arr)
       \/ \E pad \in PadSlots, key \in JoystickKeys : AddEventListener(pad, "joystickmove", 1, key)
       \/ \E pad \in PadSlots, key \in JoystickKeys : RemoveEventListener(pad, "joystickmove", 1, key)

SpecJoystick == InitJoystick /\ [][NextJoystick]_vars

(* SpecSticks: one device with one joystick; callers add and remove        *)
(* joystickmove listeners through addJoystickEventListener and             *)
(* removeJoystickEventListener for the axes (0, 1).                        *)
StickListeners == {1, 3}

InitSticks == InitWith(PadSlots, {FALSE}) /\ LoopIdle /\ RegistryIdle /\ NoPage /\ NoComponents /\ NoApp

NextSticks ==
    /\ UNCHANGED besideGamepads
    /\ \/ \E arr \in HostArrays(PadSlots, JoystickRows, FALSE) : Poll(arr)
       \/ \E pad \in PadSlots, l \in StickListeners :
              AddJoystickEventListener(pad, "joystickmove", l, 0, 1)
       \/ \E pad \in PadSlots, l \in StickListeners :
              RemoveJoystickEventListener(pad, "joystickmove", l, 0, 1)

SpecSticks == InitSticks /\ [][NextSticks]_vars

(* SpecLoop: the polling loop started and stopped by callers while the     *)
(* host runs the frame callbacks, on a host with or without the Gamepad    *)
(* API.                                                                    *)
InitLoop ==
    /\ InitWith(PadSlots, {FALSE}) /\ NoApp
    /\ RegistryIdle
    /\ NoPage
    /\ NoComponents
    /\ supported \in BOOLEAN
    /\ paused = FALSE
    /\ frames = 0
    /\ lastLoop = "none"
    /\ polled = FALSE

NextLoop ==
    /\ UNCHANGED besideLoop
    /\ \/ Start
       \/ Stop
       \/ FrameCallback

SpecLoop == InitLoop /\ [][NextLoop]_vars

(* SpecRegistry: callers bind and unbind actions for the A button and the  *)
(* D-pad up button, one at a time and in lists, the page sets and clears   *)
(* its callbacks, and buttons are pressed and released.                    *)
A == 0

RegistryButtons == {A, D_PAD_UP, D_PAD_BOTTOM}

RegistryActions ==
    [index : {A, D_PAD_UP}, id : {1}, onPress : {TRUE}, onRelease : {TRUE}]
        \cup [index : {A, D_PAD_UP}, id : {2}, onPress : {FALSE}, onRelease : {FALSE}]
        \cup [index : {A}, id : {3}, onPress : {TRUE}, onRelease : {FALSE}]

RegistryLists == UNION {[1..n -> RegistryActions] : n \in 0..MaxActions}

InitRegistry == InitWith(PadSlots, {FALSE}) /\ LoopIdle /\ RegistryIdle /\ NoPage /\ NoComponents /\ NoApp

NextRegistry ==
    /\ UNCHANGED besideRegistry
    /\ \/ \E action \in RegistryActions : AddAction(action)
       \/ \E action \in RegistryActions : RemoveAction(action)
       \/ \E list \in RegistryLists : AddAll(list)
       \/ \E list \in RegistryLists : RemoveAll(list)
       \/ \E input \in {"null", "onInput"}, direction \in {"null", "onDirection"} :
              SetCallbacks(input, direction)
       \/ \E index \in RegistryButtons : OnButtonPress(index)
       \/ \E index \in RegistryButtons : OnButtonRelease(index)

SpecRegistry == InitRegistry /\ [][NextRegistry]_vars

(* SpecLoad: a page of any class is loaded while the document changes and  *)
(* may be unloaded at any time.                                            *)
LoadRows == {NoRows, (0 :> "slider"), (0 :> "slider") @@ (1 :> "slider")}

LoadDocuments == [ready : BOOLEAN, rows : LoadRows, jaws : {{}}]

InitLoad ==
    /\ InitWith(PadSlots, {FALSE}) /\ LoopIdle /\ RegistryIdle /\ NoApp
    /\ NewPage(PageClasses, LoadDocuments)
    /\ NoComponents

NextLoad ==
    /\ UNCHANGED besidePage
    /\ \/ Load
       \/ ReadinessTimer
       \/ StylesLoaded
       \/ LoadContinues
       \/ Unload
       \/ \E d \in LoadDocuments : DomChange(d)
    /\ Len(heap') <= MaxObjects

SpecLoad == InitLoad /\ [][NextLoad]_vars

(* A timer set with setTimeout fires when it is due. *)
SpecLoadFair == SpecLoad /\ WF_vars(ReadinessTimer /\ UNCHANGED besidePage)

(* SpecPage: a page with navigatables is loaded and then driven with       *)
(* directions and the Close action while rows and companion panels come    *)
(* and go in the document.                                                 *)
NavigatingClasses == SliderBrowseClasses \cup {"ChooseProfile", "SearchBrowse"}

PageRows ==
    {NoRows, (0 :> "slider"), (0 :> "slider") @@ (1 :> "slider")}

PageDocuments ==
    {d \in [ready : {TRUE}, rows : PageRows, jaws : SUBSET {0, 1}] :
         \A r \in d.jaws : r \in DOMAIN d.rows /\ d.rows[r] = "slider"}

InitPage ==
    /\ InitWith(PadSlots, {FALSE}) /\ LoopIdle /\ RegistryIdle /\ NoApp
    /\ NewPage(NavigatingClasses, PageDocuments)
    /\ NoComponents

NextPage ==
    /\ UNCHANGED besidePage
    /\ \/ Load
       \/ ReadinessTimer
       \/ StylesLoaded
       \/ LoadContinues
       \/ \E d \in PageDocuments : DomChange(d)
       \/ \E direction \in {UP, RIGHT, DOWN, LEFT} : DirectionPress(direction)
       \/ ClosePress
    /\ Len(heap') <= MaxObjects

SpecPage == InitPage /\ [][NextPage]_vars

(* SpecPanels: a browse page over two slider rows, none with a companion   *)
(* panel at first, is driven with directions, Expand and Close while the   *)
(* timers of openJawbone run; a panel comes into a row when Expand clicks  *)
(* its hitzone.                                                            *)
MaxPanelObjects == 4

PanelDocuments ==
    [ready : {TRUE}, rows : {(0 :> "slider") @@ (1 :> "slider")}, jaws : {{}}]

InitPanels ==
    /\ InitWith(PadSlots, {FALSE}) /\ LoopIdle /\ RegistryIdle /\ NoApp
    /\ NewPage({"PureSliderBrowse"}, PanelDocuments)
    /\ NoComponents

NextPanels ==
    /\ UNCHANGED besidePage
    /\ \/ Load
       \/ ReadinessTimer
       \/ StylesLoaded
       \/ LoadContinues
       \/ \E direction \in {UP, RIGHT, DOWN, LEFT} : DirectionPress(direction)
       \/ ClosePress
       \/ ExpandPress
       \/ \E id \in 1..MaxPanelObjects : PanelTimer(id)
    /\ Len(heap') <= MaxPanelObjects

SpecPanels == InitPanels /\ [][NextPanels]_vars

(* SpecEviction: a browse page over two slider rows is driven up, down and *)
(* right while the companion panel of the first row comes and goes in the  *)
(* document.                                                               *)
MaxEvictionObjects == 5

EvictionDocuments ==
    [ready : {TRUE}, rows : {(0 :> "slider") @@ (1 :> "slider")}, jaws : {{}, {0}}]

InitEviction ==
    /\ InitWith(PadSlots, {FALSE}) /\ LoopIdle /\ RegistryIdle /\ NoApp
    /\ NewPage({"PureSliderBrowse"}, EvictionDocuments)
    /\ NoComponents

NextEviction ==
    /\ UNCHANGED besidePage
    /\ \/ Load
       \/ ReadinessTimer
       \/ StylesLoaded
       \/ LoadContinues
       \/ \E d \in EvictionDocuments : DomChange(d)
       \/ \E direction \in {UP, RIGHT, DOWN} : DirectionPress(direction)
    /\ Len(heap') <= MaxEvictionObjects

SpecEviction == InitEviction /\ [][NextEviction]_vars

(* SpecStatic: a StaticNavigatable of either version over up to            *)
(* MaxComponents elements is entered, left, moved and told to select any   *)
(* index, in range or not, while elements leave the document.              *)
InitStatic ==
    /\ InitWith(PadSlots, {FALSE}) /\ LoopIdle /\ RegistryIdle /\ NoPage /\ NoApp
    /\ guarded \in BOOLEAN
    /\ components \in UNION {[1..n -> {NewComponent}] : n \in 0..MaxComponents}
    /\ staticPosition = -1
    /\ staticCall = NoStaticCall
    /\ rowSlider = NoSlider
    /\ sliderCall = NoSliderCall

NextStatic ==
    /\ UNCHANGED besideComponents
    /\ \/ \E p \in -1..MaxComponents : CallSelect(p)
       \/ CallLeft
       \/ CallRight
       \/ CallEnter
       \/ CallExit
       \/ \E i \in 1..MaxComponents : Detach(i)

SpecStatic == InitStatic /\ [][NextStatic]_vars

(* SpecSlider: a Slider built on a row of any layout is entered with any   *)
(* transfer object, exited and moved while its timers run and the host     *)
(* renders the row anew.                                                   *)
TransferObjects ==
    [position : {Undefined} \cup (-1..(MaxItem + 1)), jawboneRow : {-1, ThisRow, ThisRow + 1},
     jawboneClosed : BOOLEAN]

InitSlider ==
    /\ InitWith(PadSlots, {FALSE}) /\ LoopIdle /\ RegistryIdle /\ NoPage /\ NoApp
    /\ guarded = TRUE
    /\ components = <<>>
    /\ staticPosition = -1
    /\ staticCall = NoStaticCall
    /\ rowSlider \in {NewSlider(layout) : layout \in RowLayouts}
    /\ sliderCall = NoSliderCall

NextSlider ==
    /\ UNCHANGED besideComponents
    /\ \/ \E params \in TransferObjects : CallSliderEnter(params)
       \/ CallSliderExit
       \/ CallSliderLeft
       \/ CallSliderRight
       \/ \E hitzone \in BOOLEAN, container \in BOOLEAN : CallOpenJawbone(hitzone, container)
       \/ \E k \in 1..MaxTimers : SliderTimer(k)
       \/ \E layout \in RowLayouts : RowChange(layout)

SpecSlider == InitSlider /\ [][NextSlider]_vars

(* A timer set with setTimeout runs when it is due. *)
SpecSliderFair ==
    SpecSlider /\ \A k \in 1..MaxTimers : WF_vars(SliderTimer(k) /\ UNCHANGED besideComponents)

(* The repeater with an onDirection callback set, as a page that has       *)
(* loaded leaves it, or without one.                                       *)
InitRepeater ==
    /\ InitWith(PadSlots, {FALSE}) /\ LoopIdle /\ NoPage /\ NoComponents
    /\ actions = <<>>
    /\ onInput = "null"
    /\ onDirection \in {"null", "onDirection"}
    /\ hints = <<>>
    /\ pressCalls = <<>>
    /\ lastAction = NoOp
    /\ NoApp

NextRepeater ==
    /\ UNCHANGED besideApp
    /\ \/ \E deadzone \in RepeaterDeadzones, h \in StickValues, v \in StickValues :
              JoystickMoveListener(deadzone, h, v)
       \/ \E id \in 1..(MaxRepeatTimers + Cardinality(RepeaterAxes) + 1) : RepeatTimer(id)

SpecRepeater == InitRepeater /\ [][NextRepeater]_vars

InitModal ==
    /\ InitWith(PadSlots, {FALSE}) /\ LoopIdle /\ RegistryIdle /\ NoPage /\ NoComponents
    /\ NoApp

NextModal ==
    /\ UNCHANGED besideApp
    /\ \/ \E jbv \in BOOLEAN : CheckUrlForModal(jbv)
       \/ \E jbv \in BOOLEAN, element \in BOOLEAN : ObserveMutation(jbv, element)
       \/ CreationTimer

SpecModal == InitModal /\ [][NextModal]_vars

InitRouter ==
    /\ InitWith(PadSlots, {FALSE}) /\ LoopIdle /\ RegistryIdle /\ NoPage /\ NoComponents
    /\ NoApp

NextRouter ==
    /\ UNCHANGED besideApp
    /\ \/ \E path \in RouterPaths, forceLoad \in BOOLEAN, ready \in BOOLEAN :
              RunHandler(path, forceLoad, ready)
       \/ \E ready \in BOOLEAN : ProfilePopup(ready)
       \/ GoBack
       \/ \E i \in 1..MaxPages, ready \in BOOLEAN : RouterTimer(i, ready)
       \/ \E i \in 1..MaxPages : RouterStyles(i)

SpecRouter == InitRouter /\ [][NextRouter]_vars

(* A browse page entered at its first slider row as load() and setPageActions leave    *)
(* it, in a document with navigation tabs for the Menu or without them.    *)
InitPress ==
    /\ InitWith(PadSlots, {FALSE}) /\ LoopIdle /\ NoComponents
    /\ pageClass = "PureSliderBrowse"
    /\ dom \in {[ready |-> TRUE, rows |-> rows, jaws |-> {}] : rows \in PressRows}
    /\ \E tabs \in BOOLEAN :
           heap = <<[NewNavigatable("Menu", NoRow) EXCEPT !.hollow = ~tabs],
                    [NewNavigatable("Slider", 0) EXCEPT !.entered = TRUE]>>
    /\ navigatables = <<1, 2>>
    /\ position = 1
    /\ inlineJawbone = 0
    /\ loaded = TRUE
    /\ unloaded = FALSE
    /\ phase = "done"
    /\ waitResolved = TRUE
    /\ timer = FALSE
    /\ styled = TRUE
    /\ navLog = <<>>
    /\ onLoads = 1
    /\ lastPage = NoPageCall
    /\ actions = BindAll(<<>>, <<NavigationAction(BUTTON_BOTTOM, "Play", 2),
                                 NavigationAction(BUTTON_LEFT, "Expand", 2)>>)
    /\ hints = Values(actions)
    /\ onInput = "onInput"
    /\ onDirection = "onDirection"
    /\ pressCalls = <<>>
    /\ lastAction = NoOp
    /\ NoApp

NextPress ==
    /\ UNCHANGED <<gamepadVars, loopVars, componentVars>>
    /\ \E n \in 1..MaxPresses : \E indices \in [1..n -> PressButtons] : PollPresses(indices)

SpecPress == InitPress /\ [][NextPress]_vars

----------------------------------------------------------------------------
(* Properties *)

Present(arr) == {i \in DOMAIN arr : arr[i] # Null}

Count(type, pad, index) ==
    Cardinality({k \in 1..Len(events) :
                    events[k].type = type /\ events[k].pad = pad /\ events[k].index = index})

(* The devices given to update() at the last poll: tracked before it and   *)
(* present in it.                                                          *)
Updated == Present(prevInput) \cap Present(lastInput)

(* C1: for a tracked device reported connected at two consecutive polls,   *)
(* a button whose pressed flag went false -> true yields exactly one       *)
(* buttonpress and no buttonrelease for its index, true -> false exactly   *)
(* one buttonrelease and no buttonpress, and no transition yields neither. *)
C1_ButtonEdges ==
    \A pad \in IF lastCall.op = "poll" THEN Updated ELSE {} :
        LET old == prevInput[pad]
            new == lastInput[pad]
        IN  (old.connected /\ new.connected) =>
                \A i \in 0..(Len(new.buttons) - 1) :
                    LET was == old.buttons[i + 1].pressed
                        is == new.buttons[i + 1].pressed
                        presses == Count("buttonpress", pad, i)
                        releases == Count("buttonrelease", pad, i)
                    IN  /\ (~was /\ is) => (presses = 1 /\ releases = 0)
                        /\ (was /\ ~is) => (presses = 0 /\ releases = 1)
                        /\ (was = is) => (presses = 0 /\ releases = 0)

C1_Witness ==
    \E pad \in Updated :
        /\ live /\ lastCall.op = "poll"
        /\ prevInput[pad].connected /\ lastInput[pad].connected
        /\ prevInput[pad].buttons = <<Pressed, Released>>
        /\ lastInput[pad].buttons = <<Released, Pressed>>
        /\ Count("buttonpress", pad, 1) = 1
        /\ Count("buttonrelease", pad, 0) = 1

(* The devices of the connection events of a type, in order, and a test    *)
(* that a sequence names each member of a set exactly once.                *)
ConnectionPads(type) ==
    LET es == SelectSeq(events, LAMBDA e : e.type = type)
    IN  [k \in 1..Len(es) |-> es[k].pad]

IsOnceEach(pads, set) ==
    /\ Len(pads) = Cardinality(set)
    /\ {pads[k] : k \in 1..Len(pads)} = set

(* C2: every poll creates exactly one connect event for each device that  *)
(* is present and was not at the poll before, exactly one disconnect event *)
(* for each device that was present and is no longer, and leaves exactly   *)
(* the present devices tracked; A, B, C (0, 1, 2) connecting in order and  *)
(* then B disappearing gives connect(A), connect(B), connect(C),           *)
(* disconnect(B) and the map {A, C}.                                       *)
C2_ConnectDisconnect ==
    /\ IsOnceEach(ConnectionPads("connect"), Present(lastInput) \ Present(prevInput))
    /\ IsOnceEach(ConnectionPads("disconnect"), Present(prevInput) \ Present(lastInput))
    /\ DOMAIN gamepads = Present(lastInput)
    /\ (/\ Len(connLog) = 4
        /\ SubSeq(connLog, 1, 3) = <<ConnectionEvent(0, "connect"), ConnectionEvent(1, "connect"),
                                     ConnectionEvent(2, "connect")>>
        /\ Present(prevInput) = {0, 1, 2}
        /\ Present(lastInput) = {0, 2})
       => (connLog[4] = ConnectionEvent(1, "disconnect") /\ DOMAIN gamepads = {0, 2})

C2_Witness ==
    /\ connLog = <<ConnectionEvent(0, "connect"), ConnectionEvent(1, "connect"),
                   ConnectionEvent(2, "connect"), ConnectionEvent(1, "disconnect")>>
    /\ DOMAIN gamepads = {0, 2}
    /\ Present(prevInput) = {0, 1, 2}

(* The position of an event type in the order of the three comparisons. *)
Rank(type) ==
    CASE type \in {"buttonpress", "buttonrelease", "buttonvaluechange"} -> 1
      [] type = "axischange" -> 2
      [] type = "joystickmove" -> 3
      [] OTHER -> 0

(* C7: among the events one update of a device creates, every button    *)
(* event (press, release, value change) comes before every axischange,    *)
(* and every axischange before every joystickmove.                        *)
C7_ButtonsAxesJoysticks ==
    \A j, k \in 1..Len(events) :
        (j < k /\ events[j].pad = events[k].pad /\ Rank(events[j].type) > 0 /\ Rank(events[k].type) > 0)
            => Rank(events[j].type) <= Rank(events[k].type)

C7_Witness ==
    \E j, k, l \in 1..Len(events) :
        /\ j < k /\ k < l
        /\ events[j].type = "buttonvaluechange"
        /\ events[k].type = "axischange"
        /\ events[l].type = "joystickmove" /\ events[l].calls = <<1>>
        /\ \E i \in 1..Len(events) : events[i].type = "buttonpress"

(* C8: an update whose old or new state reports not connected creates no  *)
(* button, axis or joystick event, whatever the values, and leaves the new *)
(* values as the baseline of the next comparison.                          *)
C8_NotConnected ==
    \A pad \in IF lastCall.op = "poll" THEN Updated ELSE {} :
        LET old == prevInput[pad]
            new == lastInput[pad]
        IN  (~old.connected \/ ~new.connected) =>
                /\ \A k \in 1..Len(events) : ~(events[k].pad = pad /\ events[k].type \in EventTypes)
                /\ gamepads[pad].gamepad = new
                /\ gamepads[pad].last = [connected |-> new.connected, axes |-> new.axes,
                                         buttons |-> new.buttons]

C8_Witness ==
    \E pad \in Updated :
        /\ lastCall.op = "poll"
        /\ ~prevInput[pad].connected /\ lastInput[pad].connected
        /\ prevInput[pad].buttons = <<Released, Released>> /\ lastInput[pad].buttons = <<Pressed, Released>>
        /\ prevInput[pad].axes = <<0, 0>> /\ lastInput[pad].axes = <<50, 0>>
        /\ MapHas(gamepads[pad].callbacks["joystickmove"], JOYSTICK_LEFT)
        /\ events = <<>>

(* The listeners an event of the last poll was created for, in the order *)
(* the claim gives: those added for its index, then those added for -1.    *)
IndexListeners(e) == Registered(e.pad, e.type, NumKey(e.index))

WildcardListeners(e) == Registered(e.pad, e.type, NumKey(WildcardIndex))

IsPrefix(p, q) == Len(p) <= Len(q) /\ \A k \in 1..Len(p) : p[k] = q[k]

Indexed(e) == e.type \in {"buttonpress", "buttonrelease", "buttonvaluechange", "axischange"}

FirstConsumer(listeners) ==
    IF \E k \in 1..Len(listeners) : listeners[k] \in ConsumingListeners
    THEN CHOOSE k \in 1..Len(listeners) :
             /\ listeners[k] \in ConsumingListeners
             /\ \A j \in 1..(k - 1) : listeners[j] \notin ConsumingListeners
    ELSE Len(listeners)

(* C4: the listener that calls consume() is the last one to receive that  *)
(* event, and every other event of the same poll still reaches each of its *)
(* own listeners up to the first one of them that consumes it.             *)
C4_ConsumeStopsThisEventOnly ==
    lastCall.op = "poll" =>
        \A k \in 1..Len(events) :
            LET e == events[k]
            IN  Indexed(e) =>
                    /\ \A j \in 1..(Len(e.calls) - 1) : e.calls[j] \notin ConsumingListeners
                    /\ Len(e.calls) = FirstConsumer(IndexListeners(e) \o WildcardListeners(e))

C4_Witness ==
    /\ lastCall.op = "poll"
    /\ \E j, k \in 1..Len(events) :
           /\ events[j].type = "buttonpress" /\ events[j].index = 0
           /\ events[k].type = "buttonpress" /\ events[k].index = 1
           /\ IndexListeners(events[j]) = <<2, 1>>
           /\ WildcardListeners(events[j]) = <<3, 2>>
           /\ events[j].calls = <<2>>
           /\ events[k].calls = <<3, 2>>

(* The events of a type and index that reached at least one listener. *)
Fired(type, pad, index) ==
    Cardinality({k \in 1..Len(events) :
                    /\ events[k].type = type /\ events[k].pad = pad /\ events[k].index = index
                    /\ events[k].calls # <<>>})

(* The last poll took axis 0 of a connected device from one value to       *)
(* another with the joystick's other axis at rest, the joystick deadzone   *)
(* being the default and an axischange listener for axis 0 and a           *)
(* joystickmove listener for the joystick being registered.                *)
DeadzoneStep(pad, from, to) ==
    /\ lastCall.op = "poll" /\ pad \in Updated
    /\ prevInput[pad].connected /\ lastInput[pad].connected
    /\ gamepads[pad].deadzone = Num(DefaultDeadzone)
    /\ Registered(pad, "axischange", NumKey(0)) # <<>>
    /\ Registered(pad, "joystickmove", JOYSTICK_LEFT) # <<>>
    /\ prevInput[pad].axes = <<from, 0>> /\ lastInput[pad].axes = <<to, 0>>

AxisDeadzoneUnset(pad) == 0 \notin DOMAIN gamepads[pad].deadzones

AxisDeadzoneIs(pad, deadzone) ==
    /\ 0 \in DOMAIN gamepads[pad].deadzones
    /\ gamepads[pad].deadzones[0] = Num(deadzone)

(* Both values lie within a deadzone that is a number. *)
Within(old, new, deadzone) ==
    ~deadzone.nan /\ Abs(old) <= deadzone.val /\ Abs(new) <= deadzone.val

(* C5 as stated: with the default joystick deadzone 0.1 and both listeners *)
(* registered, the poll that takes the axis 0 -> 0.05 emits no axischange  *)
(* and no joystickmove, and the poll that takes it 0.05 -> 0.2 emits       *)
(* exactly one of each.                                                    *)
C5_Original ==
    \A pad \in PadSlots :
        /\ DeadzoneStep(pad, 0, 5) =>
               (Fired("axischange", pad, 0) = 0 /\ Fired("joystickmove", pad, 0) = 0)
        /\ DeadzoneStep(pad, 5, 20) =>
               (Fired("axischange", pad, 0) = 1 /\ Fired("joystickmove", pad, 0) = 1)

(* C5: with the default joystick deadzone 0.1 and both listeners           *)
(* registered, the poll that takes the axis 0 -> 0.05 emits no             *)
(* joystickmove, and no axischange if the axis has a per-axis deadzone of  *)
(* 0.1, but one axischange if it has no per-axis deadzone; the poll that   *)
(* takes it 0.05 -> 0.2 emits exactly one joystickmove and one axischange  *)
(* in both cases.  A change within the joystick deadzone on both sides of  *)
(* both axes never emits joystickmove, and a change within the axis's own  *)
(* deadzone on both sides never emits axischange.                          *)
C5_DeadzoneScenario ==
    \A pad \in IF lastCall.op = "poll" THEN Updated ELSE {} :
        LET g == gamepads[pad]
            old == prevInput[pad]
            new == lastInput[pad]
        IN  /\ DeadzoneStep(pad, 0, 5) =>
                   /\ Fired("joystickmove", pad, 0) = 0
                   /\ AxisDeadzoneIs(pad, 10) => Fired("axischange", pad, 0) = 0
                   /\ AxisDeadzoneUnset(pad) => Fired("axischange", pad, 0) = 1
            /\ DeadzoneStep(pad, 5, 20) =>
                   /\ Fired("joystickmove", pad, 0) = 1
                   /\ (AxisDeadzoneIs(pad, 10) \/ AxisDeadzoneUnset(pad)) =>
                          Fired("axischange", pad, 0) = 1
            /\ (old.connected /\ new.connected) =>
                   /\ (\A a \in {1, 2} : Within(old.axes[a], new.axes[a], g.deadzone)) =>
                          Count("joystickmove", pad, 0) = 0
                   /\ \A i \in DOMAIN g.deadzones :
                          Within(old.axes[i + 1], new.axes[i + 1], g.deadzones[i]) =>
                              Count("axischange", pad, i) = 0

C5_Witness ==
    \E pad \in PadSlots :
        /\ DeadzoneStep(pad, 5, 20)
        /\ AxisDeadzoneIs(pad, 10)
        /\ Fired("axischange", pad, 0) = 1
        /\ Fired("joystickmove", pad, 0) = 1

(* The adjustment as the deadzone formula gives it. *)
Adjusted(v, dz) == IF Abs(v) <= dz THEN 0 ELSE IF v > 0 THEN v - dz ELSE v + dz

(* C6: the deadzone adjustment is 0 for |v| <= dz and v - sign(v)*dz for   *)
(* |v| > dz: every joystickmove event carries exactly these values of the  *)
(* two axes under the joystick deadzone, and joystickmove and axischange   *)
(* are emitted exactly when these values of old and new differ.            *)
C6_DeadzoneFormula ==
    \A pad \in IF lastCall.op = "poll" THEN Updated ELSE {} :
        LET g == gamepads[pad]
            old == prevInput[pad]
            new == lastInput[pad]
            dz == JoystickDeadzone(g)
            moved == \E a \in {1, 2} : Adjusted(new.axes[a], dz) # Adjusted(old.axes[a], dz)
        IN  (old.connected /\ new.connected) =>
                /\ \A k \in 1..Len(events) :
                       (events[k].type = "joystickmove" /\ events[k].pad = pad) =>
                           /\ events[k].value = Adjusted(new.axes[1], dz)
                           /\ events[k].value2 = Adjusted(new.axes[2], dz)
                /\ MapHas(g.callbacks["joystickmove"], JOYSTICK_LEFT) =>
                       Count("joystickmove", pad, 0) = IF moved THEN 1 ELSE 0
                /\ \A i \in DOMAIN g.deadzones :
                       ~g.deadzones[i].nan =>
                           Count("axischange", pad, i) =
                               IF Adjusted(new.axes[i + 1], g.deadzones[i].val)
                                      # Adjusted(old.axes[i + 1], g.deadzones[i].val)
                               THEN 1 ELSE 0

C6_Witness ==
    \E pad \in IF lastCall.op = "poll" THEN Updated ELSE {} :
        /\ prevInput[pad].axes = <<20, 0>> /\ lastInput[pad].axes = <<-20, 0>>
        /\ gamepads[pad].deadzone = Num(10)
        /\ AxisDeadzoneIs(pad, 20)
        /\ Count("axischange", pad, 0) = 0
        /\ \E k \in 1..Len(events) :
               /\ events[k].type = "joystickmove"
               /\ events[k].value = -10 /\ events[k].value2 = 0

(* A deadzone that is not a number of [0, 1). *)
OutsideRange(deadzone) == deadzone.nan \/ deadzone.val < 0 \/ deadzone.val >= 100

(* C9 as stated: setting the joystick deadzone or a per-axis deadzone to a *)
(* value outside [0,1) raises an error and leaves the configured deadzones *)
(* as they were.                                                           *)
C9_Original ==
    [][(/\ lastCall'.op \in {"setJoystickDeadzone", "setAxisDeadzone"}
        /\ OutsideRange(lastCall'.deadzone))
           => (lastCall'.threw /\ gamepads' = gamepads)]_vars

IsTwoAxisArray(key) == key.kind = "arr" /\ Len(key.items) = 2

(* C10 as stated: adding or removing a joystickmove listener with an index *)
(* that is not an array of exactly two axes raises an error and leaves the *)
(* registered listeners as they were.                                      *)
C10_Original ==
    [][(/\ lastCall'.op \in {"addEventListener", "removeEventListener"}
        /\ lastCall'.type = "joystickmove"
        /\ ~IsTwoAxisArray(lastCall'.key))
           => (lastCall'.threw /\ gamepads' = gamepads)]_vars

(* C11: while the handler is paused, no step of the loop other than        *)
(* start() executes poll() or asks for another frame, also when a frame    *)
(* callback asked for before stop() runs; a second stop() changes nothing. *)
C11_StopHaltsLoop ==
    [][/\ (paused /\ lastLoop' # "start") =>
              (~polled' /\ frames' <= frames /\ UNCHANGED gamepadVars)
       /\ (paused /\ lastLoop' = "stop") =>
              UNCHANGED <<supported, paused, frames, gamepadVars>>]_vars

C11_Witness ==
    /\ supported /\ paused
    /\ lastLoop = "frame" /\ ~polled
    /\ frames = 0
    /\ DOMAIN gamepads # {}

(* C12 as stated: after any sequence of start() and stop() calls at most   *)
(* one frame callback of the loop is pending.                              *)
C12_Original == frames <= 1

(* The last action of a list that is for the same index as its k-th. *)
LastFor(list, k) ==
    LET same == {j \in 1..Len(list) : list[j].index = list[k].index}
    IN  list[CHOOSE j \in same : \A i \in same : i <= j]

(* C13: after any sequence of addAction, addAll, removeAction and          *)
(* removeAll every index has at most one action, in the registry and in    *)
(* the hints made from it, and after an addAction or addAll the registry   *)
(* holds, for each index added, the action added last for that index.      *)
C13_OneActionPerIndex ==
    /\ \A i \in DOMAIN actions : actions[i].index = i
    /\ \A j, k \in 1..Len(hints) : hints[j].index = hints[k].index => j = k
    /\ {hints[k] : k \in 1..Len(hints)} = {actions[i] : i \in DOMAIN actions}
    /\ lastAction.op \in {"addAction", "addAll"} =>
           \A k \in 1..Len(lastAction.list) :
               LET added == LastFor(lastAction.list, k)
               IN  added.index \in DOMAIN actions /\ actions[added.index] = added

C13_Witness ==
    /\ lastAction.op = "addAll"
    /\ Len(lastAction.list) = 2
    /\ lastAction.list[1].index = A /\ lastAction.list[1].id = 1
    /\ lastAction.list[2].index = A /\ lastAction.list[2].id = 3
    /\ actions[A].id = 3
    /\ D_PAD_UP \in DOMAIN actions

(* The place of a callback in the order of onButtonPress. *)
PressRank(call) ==
    CASE call.callback = "onInput" -> 1
      [] call.callback = "onDirection" -> 2
      [] call.callback = "onPress" -> 3
      [] OTHER -> 0

PressCalled(name) == {k \in 1..Len(pressCalls) : pressCalls[k].callback = name}

(* C14: onButtonPress(index) calls the input callback if one is set, the   *)
(* direction callback with the direction of the index if the index is a    *)
(* D-pad code and a direction callback is set, and the onPress of the      *)
(* action bound to the index if there is one, each exactly when its own    *)
(* condition holds and in this order.                                      *)
C14_PressOrder ==
    lastAction.op = "onButtonPress" =>
        LET index == lastAction.index
        IN  /\ Cardinality(PressCalled("onInput")) = IF onInput # "null" THEN 1 ELSE 0
            /\ Cardinality(PressCalled("onDirection")) =
                   IF index \in {D_PAD_UP, D_PAD_BOTTOM, D_PAD_LEFT, D_PAD_RIGHT} /\ onDirection # "null"
                   THEN 1 ELSE 0
            /\ Cardinality(PressCalled("onPress")) =
                   IF index \in DOMAIN actions /\ actions[index].onPress THEN 1 ELSE 0
            /\ \A k \in PressCalled("onDirection") :
                   pressCalls[k].arg = CASE index = D_PAD_UP -> UP
                                         [] index = D_PAD_BOTTOM -> DOWN
                                         [] index = D_PAD_LEFT -> LEFT
                                         [] index = D_PAD_RIGHT -> RIGHT
            /\ \A k \in PressCalled("onPress") : pressCalls[k].arg = actions[index].id
            /\ \A j, k \in 1..Len(pressCalls) :
                   j < k => PressRank(pressCalls[j]) < PressRank(pressCalls[k])
            /\ \A k \in 1..Len(pressCalls) : PressRank(pressCalls[k]) > 0

C14_Witness ==
    /\ lastAction.op = "onButtonPress"
    /\ lastAction.index = D_PAD_UP
    /\ pressCalls = Called("onInput", WildcardIndex) \o Called("onDirection", UP) \o Called("onPress", 1)

(* C15: onLoad runs at most once, and only in the continuation of load()  *)
(* after the readiness wait and the style loading have both completed and  *)
(* with the page not unloaded; once a page is unloaded before it is        *)
(* loaded, every later readiness check resolves the wait, onLoad is never  *)
(* run, none of the page's actions is in the registry and loaded stays     *)
(* false.                                                                  *)
C15_LoadOnceUnlessUnloaded ==
    [][/\ onLoads' <= 1
       /\ onLoads' # onLoads => (~unloaded /\ phase = "loading" /\ waitResolved /\ styled)
       /\ loaded' # loaded => (onLoads' = onLoads + 1 /\ loaded')
       /\ (unloaded /\ ~loaded) =>
              /\ onLoads' = 0
              /\ ~loaded'
              /\ \A i \in DOMAIN actions' :
                     \A k \in 1..Len(PageActions(pageClass)) : actions'[i] # PageActions(pageClass)[k]
              /\ lastPage'.op \in {"load", "checkReadiness"} => waitResolved']_vars

C15_Witness ==
    /\ pageClass = "WatchVideo"
    /\ unloaded /\ phase = "done" /\ lastPage.op = "loadSkipped"
    /\ IsPageReady(pageClass, dom)
    /\ ~loaded /\ onLoads = 0 /\ actions = <<>>

(* C16: the readiness wait resolves only in a check that finds the page    *)
(* unloaded or ready, so it never resolves by time alone; a check that     *)
(* finds the page unloaded or ready resolves it; and with the timer firing *)
(* when due it does resolve once the page is unloaded, or once the page    *)
(* stays ready.                                                            *)
C16_ReadinessWait ==
    /\ [][/\ waitResolved' # waitResolved =>
                 /\ waitResolved'
                 /\ lastPage'.op \in {"load", "checkReadiness"}
                 /\ (unloaded \/ IsPageReady(pageClass, dom))
          /\ (lastPage'.op \in {"load", "checkReadiness"} /\ ~waitResolved') =>
                 (timer' /\ ~unloaded /\ ~IsPageReady(pageClass, dom))]_vars
    /\ (phase = "loading" /\ unloaded) ~> waitResolved
    /\ <>[](phase = "loading" /\ IsPageReady(pageClass, dom)) => <>waitResolved

C16_Witness ==
    /\ lastPage.op = "checkReadiness"
    /\ unloaded /\ waitResolved /\ ~timer
    /\ ~IsPageReady(pageClass, dom)
    /\ phase = "loading"

(* The page's onLoad has run or a direction has reached the page. *)
Navigated == loaded /\ lastPage.op \in {"onLoad", "direction", "close"}

(* C17 as stated: after onLoad and after every direction event, position   *)
(* is the index of an entry of the list that is not null, and no error was *)
(* raised.                                                                 *)
C17_Original == Navigated => (Current(World) # 0 /\ ~lastPage.threw)

(* The list is [Menu, Slider], position is 1, on a slider-browse page. *)
AtSliderBelowMenu ==
    /\ loaded
    /\ pageClass \in SliderBrowseClasses
    /\ Len(navigatables) = 2
    /\ navigatables[1] # 0 /\ heap[navigatables[1]].kind = "Menu"
    /\ navigatables[2] # 0 /\ heap[navigatables[2]].kind = "Slider"
    /\ position = 1

(* The row below the slider at position 1 holds a slider or a billboard. *)
NextSectionExists ==
    LET row == heap[navigatables[2]].row + 1
    IN  row \in DOMAIN dom.rows /\ dom.rows[row] \in {"slider", "billboard"}

(* The slider at position 1 has a companion panel in the document that the *)
(* slider does not know to be open.                                        *)
PanelFound ==
    /\ heap[navigatables[2]].row \in dom.jaws
    /\ ~heap[navigatables[2]].jawboneOpen

(* The step appends a new navigatable of one of the kinds for the row,     *)
(* exits the slider and enters the new navigatable with the slider's       *)
(* transfer object.                                                        *)
MovesToNew(kinds, row) ==
    LET slider == navigatables[2]
        new == FreshId(heap)
        transfer == [NoParams EXCEPT !.position = heap[slider].position]
    IN  /\ navigatables' = Append(navigatables, new)
        /\ new \in DOMAIN heap'
        /\ heap'[new].kind \in kinds /\ heap'[new].row = row
        /\ position' = 2
        /\ navLog' = <<[call |-> "exit", id |-> slider, params |-> transfer],
                       [call |-> "enter", id |-> new, params |-> transfer]>>
        /\ ~heap'[slider].entered /\ heap'[new].entered

StaysPut ==
    /\ position' = 1
    /\ navigatables' = navigatables
    /\ navLog' = <<>>
    /\ heap'[navigatables[2]] = heap[navigatables[2]]

DownPressed == lastPage'.op = "direction" /\ lastPage'.arg = DOWN

(* C18 as stated: with [Menu, Slider] and position 1, DOWN inserts the next *)
(* section at index 2 and moves to it if there is one, and otherwise       *)
(* changes nothing.                                                        *)
C18_Original ==
    [][(AtSliderBelowMenu /\ DownPressed) =>
           IF NextSectionExists
           THEN MovesToNew({"Slider", "Billboard"}, heap[navigatables[2]].row + 1)
           ELSE StaysPut]_vars

(* C18: with [Menu, Slider] and position 1, DOWN inserts at index 2 and    *)
(* enters the slider's companion panel if the slider's row has one in the  *)
(* document that is not known to be open; otherwise the next section if    *)
(* there is one; otherwise it changes nothing.  The slider is exited and   *)
(* its transfer object is given to the entry entered.                      *)
C18_DownFromSlider ==
    [][(AtSliderBelowMenu /\ DownPressed) =>
           IF PanelFound
           THEN /\ MovesToNew({"Jawbone"}, heap[navigatables[2]].row)
                /\ inlineJawbone' = FreshId(heap)
           ELSE IF NextSectionExists
                THEN MovesToNew({"Slider", "Billboard"}, heap[navigatables[2]].row + 1)
                ELSE StaysPut]_vars

C18_Witness ==
    /\ pageClass = "PureSliderBrowse"
    /\ lastPage.op = "direction" /\ lastPage.arg = DOWN
    /\ Len(navigatables) = 3 /\ position = 2
    /\ heap[navigatables[1]].kind = "Menu"
    /\ heap[navigatables[2]].kind = "Slider" /\ heap[navigatables[2]].row = 0
    /\ heap[navigatables[2]].position = 1
    /\ heap[navigatables[3]].kind = "Slider" /\ heap[navigatables[3]].row = 1
    /\ navLog = <<[call |-> "exit", id |-> navigatables[2], params |-> [NoParams EXCEPT !.position = 1]],
                  [call |-> "enter", id |-> navigatables[3], params |-> [NoParams EXCEPT !.position = 1]]>>
    /\ dom.jaws = {}

(* The navigatables that received enter() and no exit() since. *)
Entered == {id \in DOMAIN heap : heap[id].entered}

(* C19 as stated: on a loaded page at most one navigatable is entered, and *)
(* an entered navigatable is the entry at navigatables[position].          *)
C19_Original ==
    loaded => (Cardinality(Entered) <= 1 /\ \A id \in Entered : Current(World) = id)

(* C20: removeCurrentNavigatable, called with an entry at position, in one *)
(* step exits that entry, takes exactly it out of the list, lowers         *)
(* position by one and enters the entry then at position, if there is      *)
(* one, with the transfer object of that exit.                             *)
C20_RemoveCurrent ==
    [][(lastPage'.op = "close" /\ Current(World) # 0) =>
           LET old == Current(World)
               new == Current([navigatables |-> navigatables', position |-> position'])
           IN  /\ Len(navigatables') = Len(navigatables) - 1
               /\ \A k \in 1..Len(navigatables') :
                      navigatables'[k] = IF k <= position THEN navigatables[k] ELSE navigatables[k + 1]
               /\ position' = position - 1
               /\ Len(navLog') = IF new # 0 THEN 2 ELSE 1
               /\ navLog'[1].call = "exit" /\ navLog'[1].id = old
               /\ navLog'[1].params = NavigatableExit([heap |-> heap', log |-> <<>>], old).params
               /\ ~heap'[old].entered \/ new = old
               /\ new # 0 =>
                      /\ navLog'[2] = [call |-> "enter", id |-> new, params |-> navLog'[1].params]
                      /\ heap'[new].entered]_vars

C20_Witness ==
    /\ lastPage.op = "close"
    /\ Len(navigatables) = 2 /\ position = 1
    /\ heap[navigatables[2]].kind = "Slider"
    /\ Len(navLog) = 2
    /\ navLog[1].call = "exit" /\ heap[navLog[1].id].kind = "Jawbone"
    /\ navLog[1].params.jawboneClosed
    /\ navLog[2] = [call |-> "enter", id |-> navigatables[2], params |-> navLog[1].params]
    /\ navLog[2].params.position = 1
    /\ heap[navigatables[2]].position = 1

(* An element carries the focus style. *)
Carries(component) == component.style \/ component.outline

(* The elements of a list that are in the document and carry the focus     *)
(* style.                                                                  *)
FocusIn(list) == {i \in 1..Len(list) : list[i].connected /\ Carries(list[i])}

(* The last call was select(m) straight after a select(n) that returned,   *)
(* n and m indexes of elements that are in the document.                   *)
SelectAfterSelect ==
    /\ staticCall.op = "select" /\ staticCall.prev.op = "select"
    /\ staticCall.before = staticCall.prev.arg
    /\ staticCall.prev.arg \in 0..(Len(components) - 1)
    /\ staticCall.arg \in 0..(Len(components) - 1)
    /\ staticCall.was[staticCall.prev.arg + 1].connected
    /\ staticCall.was[staticCall.arg + 1].connected

C23_Original ==
    guarded => (staticPosition = -1 \/ staticPosition \in 0..(Len(components) - 1))

(* C24 as stated: select(p) on an element that left the document after the *)
(* list was cached does not throw, puts no focus style on it and leaves    *)
(* position at -1.                                                         *)
C24_Original ==
    (/\ staticCall.op = "select"
     /\ staticCall.arg \in 0..(Len(components) - 1)
     /\ ~staticCall.was[staticCall.arg + 1].connected)
        => /\ ~staticCall.threw
           /\ ~Carries(components[staticCall.arg + 1])
           /\ staticPosition = -1

(* C25: with n elements, left() at position 0 and right() at position n-1  *)
(* leave position as it is, left() at a position from 1 to n-1 lowers it   *)
(* by one and right() at a position from 0 to n-2 raises it by one; no     *)
(* call of left() or right() moves position by more than one.              *)
C25_NoWrap ==
    LET n == Len(components)
        p == staticCall.before
    IN  /\ staticCall.op = "left" =>
               /\ p = 0 => staticPosition = 0
               /\ p \in 1..(n - 1) => staticPosition = p - 1
               /\ staticPosition \in {p - 1, p}
        /\ staticCall.op = "right" =>
               /\ p = n - 1 => staticPosition = p
               /\ p \in 0..(n - 2) => staticPosition = p + 1
               /\ staticPosition \in {p, p + 1}
        /\ staticCall.op \in {"left", "right"} => ~staticCall.threw \/ ~guarded

C25_Witness ==
    /\ staticCall.op = "right"
    /\ Len(components) = MaxComponents
    /\ staticCall.before = MaxComponents - 1
    /\ staticPosition = MaxComponents - 1
    /\ staticCall.prev.op = "right"

(* The last call on the StaticNavigatable was enter() straight after an    *)
(* exit() that left a selected element, with the list as it was.           *)
StaticRoundTrip ==
    /\ staticCall.op = "enter" /\ ~staticCall.threw
    /\ staticCall.exited \in 0..(Len(components) - 1)

(* The last call on the Slider was enter(params) with the transfer object  *)
(* of the exit() straight before it, which left a selected item that is in *)
(* the row.                                                                *)
SliderRoundTrip ==
    /\ sliderCall.op = "enter"
    /\ sliderCall.exited # Undefined
    /\ sliderCall.params = sliderCall.transfer
    /\ HasPosition(rowSlider, sliderCall.exited)

(* C21 as stated: exit() and then enter() with the transfer object that    *)
(* exit() returned select the sub-position again that was selected before  *)
(* the exit(), on a StaticNavigatable and on a Slider, shifted or not.     *)
C21_Original ==
    /\ StaticRoundTrip => staticPosition = staticCall.exited
    /\ SliderRoundTrip => sliderCall.returned /\ rowSlider.position = sliderCall.exited

(* The requested position of the last enter(params) of the Slider, when    *)
(* the transfer object names one for this row.                             *)
Requested == sliderCall.params.position + (IF rowSlider.canShiftLeft THEN 1 ELSE 0)

(* C28 as stated: Slider.enter(params) returns for every transfer object   *)
(* and every row, and when the transfer object names a position for this   *)
(* row it has selected the highest item of the row at or below it.         *)
C28_Original ==
    sliderCall.op = "enter" =>
        /\ sliderCall.returned
        /\ (/\ sliderCall.params.position # Undefined
            /\ sliderCall.params.jawboneRow \in {-1, ThisRow}) =>
               /\ HasPosition(rowSlider, rowSlider.position)
               /\ rowSlider.position <= Requested
               /\ \A q \in (rowSlider.position + 1)..Requested : ~HasPosition(rowSlider, q)

(* The navigatable at position is of a class that moves up and down in     *)
(* itself.                                                                 *)
OwnVertical ==
    /\ Current(World) # 0
    /\ heap[Current(World)].kind \in {"SearchGallery", "ModalContainer", "ModalEpisodeList",
                                       "ModalSimilarTitles", "InteractiveChoices"}

(* The one call a direction makes on the navigatable at position. *)
OnlyCall(direction, id) ==
    <<[call |-> CASE direction = LEFT -> "left" [] direction = RIGHT -> "right"
                  [] direction = UP -> "up" [] OTHER -> "down",
       id |-> id, params |-> NoParams]>>

(* The page and its navigatables are as they were and nothing was called. *)
NothingDone ==
    /\ navLog' = <<>>
    /\ UNCHANGED <<heap, navigatables, position, inlineJawbone, actions>>

(* position moved to the entry above through setNavigatable: the entry at  *)
(* position got exit(), the one above, unless it is null, got enter() with *)
(* what that returned.                                                     *)
MovedUp ==
    /\ position' = position - 1
    /\ navigatables' = navigatables
    /\ Len(navLog') = IF navigatables[position] # 0 THEN 2 ELSE 1
    /\ navLog'[1].call = "exit" /\ navLog'[1].id = Current(World)
    /\ navigatables[position] # 0 =>
           navLog'[2] = [call |-> "enter", id |-> navigatables[position], params |-> navLog'[1].params]

(* The last step was UP or DOWN on a navigatable that handles it, or UP on *)
(* one that does not: these parts of the statement are the same in C26 as  *)
(* stated and as corrected.                                                *)
VerticalDirections ==
    /\ (lastPage'.arg \in {UP, DOWN} /\ OwnVertical) =>
           /\ navLog' = OnlyCall(lastPage'.arg, Current(World))
           /\ position' = position /\ navigatables' = navigatables
    /\ (lastPage'.arg = UP /\ Current(World) # 0 /\ ~OwnVertical) =>
           /\ position = 0 => NothingDone
           /\ position > 0 => MovedUp

SliderDropsPanel ==
    LET o == heap[Current(World)]
    IN  /\ o.kind = "Slider" /\ o.jawboneOpen
        /\ heap'[Current(World)].position # o.position

RECURSIVE UnloadCalls(_)
UnloadCalls(list) ==
    IF list = <<>> THEN <<>>
    ELSE (IF Head(list) # 0 THEN <<<<"exit", Head(list)>>, <<"cleanup", Head(list)>>>> ELSE <<>>)
             \o UnloadCalls(Tail(list))

InlinePanels ==
    {k \in DOMAIN navigatables :
         heap[navigatables[k]].kind = "Jawbone" /\ heap[navigatables[k]].inline}

(* C29: at any time the list of navigatables of the page holds at most one *)
(* inline companion panel.                                                 *)
C29_Original == Cardinality(InlinePanels) <= 1

(* The timer of openJawbone of a slider whose panel is not open has just   *)
(* run, not having been preceded by anything but the Expand that set it.   *)
Undisturbed ==
    /\ lastPage.op = "expand" /\ lastPage'.op = "panelTimer" /\ lastPage'.arg = lastPage.arg
    /\ ~heap[lastPage.arg].jawboneOpen

(* The companion panel sits right after the slider with the given id and   *)
(* is the current navigatable.                                             *)
PanelFollows(list, objects, at, id) ==
    \E k \in DOMAIN list :
        /\ list[k] = id
        /\ k + 1 \in DOMAIN list
        /\ objects[list[k + 1]].kind = "Jawbone"
        /\ objects[list[k + 1]].row = objects[id].row
        /\ at = k

(* The timer that runs right after its Expand puts the panel after the     *)
(* slider and makes it current.                                            *)
TimerUndisturbed ==
    [][Undisturbed => PanelFollows(navigatables', heap', position', lastPage'.arg)]_vars

(* C30: when the timer of openJawbone of a slider runs, the companion      *)
(* panel is in the list right after that slider and is the current         *)
(* navigatable, whatever direction events came in since Expand.            *)
C30_Original ==
    [][lastPage'.op = "panelTimer"
           => PanelFollows(navigatables', heap', position', lastPage'.arg)]_vars

(* C36: after the joystick deadzone of a device was set to a valid value   *)
(* d in [0, 1), 0 included, reading joystickDeadzone gives d, which is     *)
(* the deadzone the joystick comparison applies.                           *)
C36_Original ==
    \A pad \in DOMAIN gamepads :
        (/\ lastCall.op = "setJoystickDeadzone" /\ lastCall.pad = pad
         /\ ~lastCall.threw /\ ~lastCall.deadzone.nan)
            => JoystickDeadzone(gamepads[pad]) = lastCall.deadzone.val

(* The same for the values that are not 0. *)
DeadzoneReadBack ==
    \A pad \in DOMAIN gamepads :
        (/\ lastCall.op = "setJoystickDeadzone" /\ lastCall.pad = pad
         /\ ~lastCall.threw /\ ~lastCall.deadzone.nan /\ lastCall.deadzone.val # 0)
            => JoystickDeadzone(gamepads[pad]) = lastCall.deadzone.val

(* C37: a listener added with addJoystickEventListener(type, l, h, v) and  *)
(* then removed with removeJoystickEventListener(type, l, h, v) is not     *)
(* called by a later joystick move of the axes (h, v): every listener a    *)
(* joystickmove event calls is one added for its axes and not removed      *)
(* since.                                                                  *)
C37_Original ==
    \A k \in 1..Len(events) :
        events[k].type = "joystickmove" =>
            \A c \in 1..Len(events[k].calls) :
                \E r \in 1..Len(Registered(events[k].pad, "joystickmove",
                                            ByAxes(events[k].index, events[k].index2))) :
                    Registered(events[k].pad, "joystickmove",
                               ByAxes(events[k].index, events[k].index2))[r] = events[k].calls[c]

(* C35: whenever locked of a Slider is true it is false again later, the   *)
(* timers running when they are due, whatever the row holds.               *)
C35_Original == rowSlider.locked ~> ~rowSlider.locked

(* C32: after unload() of a loaded page the registry holds no action that  *)
(* a navigatable of the page gave it through enter().                      *)
C32_Original ==
    (loaded /\ unloaded) => \A i \in DOMAIN actions : actions[i].id[2] = 0

(* C38: in the joystick repeater at most one timer is pending per axis at  *)
(* any time, whatever the stick does, a flip from a direction to the       *)
(* opposite one without a neutral value between them included.             *)
C38_Original ==
    \A axis \in RepeaterAxes :
        Cardinality({t \in repeater.pending : t.axis = axis}) <= 1

(* C39: the ModalDetector holds at most one ModalContainer that did not    *)
(* receive cleanup(), the one in modalContainer: a container is created    *)
(* only when none is held, and none is dropped or replaced before its      *)
(* cleanup().                                                              *)
C39_Original ==
    /\ modal.containers \subseteq {modal.modalContainer}
    /\ modal.last.created # 0 => modal.last.held = 0

(* C33: when runHandler calls overlapped, a later one starting while an    *)
(* earlier one was awaiting its page, then once none is awaiting any more  *)
(* currentPath is the path of the call started last, and the page that is  *)
(* currentHandler, if runHandler made it, was made for that path.          *)
C33_Original ==
    (router.overlapped /\ ~Awaiting(router)) =>
        /\ router.currentPath = router.lastStarted
        /\ (router.currentHandler # 0 /\ router.pages[router.currentHandler].path # "")
               => router.pages[router.currentHandler].path = router.currentPath

(* C34: at most one page has loaded = true and unloaded = false, and a     *)
(* page that unload() reached before its load completed never runs onLoad. *)
C34_OneLoadedPage ==
    /\ Cardinality({i \in DOMAIN router.pages :
                       router.pages[i].loaded /\ ~router.pages[i].unloaded}) <= 1
    /\ \A i \in DOMAIN router.pages :
           /\ (router.pages[i].loaded /\ ~router.pages[i].unloaded) => router.currentHandler = i
           /\ router.pages[i].early => router.pages[i].onLoads = 0

(* A page replaced while loading has finished its load without onLoad,     *)
(* while the page that replaced it is loaded.                              *)
C34_Witness ==
    \E i \in DOMAIN router.pages, j \in DOMAIN router.pages :
        /\ i # j
        /\ router.pages[i].early /\ router.pages[i].stage = "done"
        /\ router.pages[j].loaded /\ ~router.pages[j].unloaded

(* C31: when a press of the last poll threw, the error is shown with a     *)
(* timeout that ends, the listeners were called for every event of the     *)
(* poll, and the page's position and navigatables are what they were       *)
(* before that press.                                                      *)
C31_Original ==
    errorBar.failed =>
        /\ ~lastPage.threw
        /\ errorBar.shown /\ errorBar.timeout > 0
        /\ errorBar.dispatched = errorBar.events
        /\ errorBar.after = errorBar.before

(* What holds of a press that threw: the error is caught and shown with a  *)
(* timeout that ends, and the listeners are called for every event.        *)
C31_Caught ==
    errorBar.failed =>
        /\ ~lastPage.threw
        /\ errorBar.shown /\ errorBar.timeout > 0
        /\ errorBar.dispatched = errorBar.events

============================================================================
